---- MODULE Spec2Model ----
(***************************************************************************)
(* ShroonUtils: the growable array of Vector.h as a state machine.         *)
(*                                                                         *)
(* Memory is counted in cells.  One cell stands for one word-sized unit:   *)
(* the three header fields (Size, Capacity, Elemsize) take one cell each,  *)
(* an element takes Elemsize cells.  size_t arithmetic is arithmetic       *)
(* modulo WordMod, the word being scaled down so that the wrap-around      *)
(* values (SIZE_MAX, SIZE_MAX - 1) are values TLC can enumerate.           *)
(*                                                                         *)
(* An access outside the allocated block is undefined behaviour: the       *)
(* operation then ends in one of two ways chosen nondeterministically,     *)
(* "crash" (the process dies where the access happens) or "corrupt" (the   *)
(* access lands in foreign memory and the operation runs on, its in-block  *)
(* effects applied).  Nothing is modelled after either.                    *)
(***************************************************************************)
EXTENDS Integers, Sequences, FiniteSets, TLC

VARIABLES vec, op, pre, slice, hm, mop, log, hs, sop, slog, hcall, hres

vars == <<vec, op, pre, slice, hm, mop, log, hs, sop, slog, hcall, hres>>

\* The variables of the array and the string, and those of the hashmap.
vecvars == <<vec, op, pre, slice>>
mapvars == <<hm, mop, log>>
\* The variables of the hashset, and those of both tables.
setvars == <<hs, sop, slog>>
\* The variables of the hash registry: the last call and its result.
hashvars == <<hcall, hres>>
tablevars == <<mapvars, setvars, hashvars>>

(***************************************************************************)
(* Bounds and program constants.                                           *)
(***************************************************************************)
\* size_t values are 0 .. WordMod - 1 (SIZE_MAX + 1, scaled down).  It is large
\* enough for HeaderSize + (MaxLen + GrowthSlack) * 2 cells: the allocation
\* size of an array of an explored Size does not wrap around.
WordMod == 16
\* Sizes, indices and counts the caller passes: 0 .. MaxArg and the two
\* largest words.
MaxArg == 3
\* Explored arrays have a Size of at most MaxLen, or one of the MaxWrap
\* largest words (a Size that wrapped around).
MaxLen == 3
MaxWrap == 2
\* Elements per source block handed to InsertN / PushN.
MaxCount == 2
\* sizeof(size_t) * 3, in cells.
HeaderSize == 3
\* The slack Resize adds when it has to reserve.
GrowthSlack == 2
\* The content of a cell nobody has written yet: an indeterminate value, equal
\* to no value the program stores (0, the zero byte, included).
Uninit == -1

\* sizeof(t), in cells, for the element types explored.
ElemSizes == {1, 2}
\* Element values the caller stores.
Vals == {1, 2}

\* The size whose reservation for two-cell elements, (size + GrowthSlack) * 2
\* cells, wraps around to 0.
WrapArg == WordMod \div 2 - GrowthSlack

Args == (0 .. MaxArg) \cup {WrapArg, WordMod - 2, WordMod - 1}

MsgMalloc == "Memory allocation failed."
MsgReserve == "Can't reserve memory less than the amount of memory already in use."
MsgRealloc == "Memory reallocation failed."
MsgInsert == "Insert index must be less than or equal to size."
MsgErase == "Elements requested to be erased don't exist."
MsgSlice == "Invalid index specified for slicing string."

(***************************************************************************)
(* Helpers.                                                                *)
(***************************************************************************)
\* The cells of one element of value x: Elemsize distinct, written cells.
ElemCells(x, es) == [j \in 1 .. es |-> x * es + (j - 1)]

RECURSIVE Flatten(_, _)
\* The source block of a sequence of element values, cell by cell.
Flatten(xs, es) ==
    IF xs = <<>> THEN <<>> ELSE ElemCells(Head(xs), es) \o Flatten(Tail(xs), es)

\* All sequences over S of length n.
SeqsOfLen(S, n) == [1 .. n -> S]

RetNone == [kind |-> "none", off |-> 0]
RetNull == [kind |-> "null", off |-> 0]
RetPtr(off) == [kind |-> "ptr", off |-> off]

\* The error callback: counts the call and records the message.
SUTLErrorHandler(s, m) == [s EXCEPT !.errs = s.errs + 1, !.msg = m]

\* Undefined behaviour: env.ub is the outcome the run takes.
Fault(s, env) == IF s.fault = "none" THEN [s EXCEPT !.fault = env.ub] ELSE s

\* #define SUTLVectorOffset(v, i): the cell offset of element i from v.
SUTLVectorOffset(s, i) == (s.Elemsize * i) % WordMod

\* Whether the n cells at offset off lie inside the data part of the block.
InBlock(s, off, n) == off + n <= Len(s.Data)

\* SHRN_MEMMOVE inside the block: n cells from offset src to offset dst, read
\* before written.
MemMove(data, dst, src, n) ==
    [i \in 1 .. Len(data) |->
        IF i > dst /\ i <= dst + n
        THEN (IF i - dst + src <= Len(data) THEN data[i - dst + src] ELSE Uninit)
        ELSE data[i]]

\* SHRN_MEMCPY of a source block to offset dst.
MemCpy(data, dst, block) ==
    [i \in 1 .. Len(data) |->
        IF i > dst /\ i <= dst + Len(block) THEN block[i - dst] ELSE data[i]]

Min(a, b) == IF a <= b THEN a ELSE b

\* The cell at offset off from v as the machine addresses it: the last three
\* words below v are the header fields, the offsets from 0 the data.
LoadCell(s, off) ==
    IF off = WordMod - 1 THEN s.Elemsize
    ELSE IF off = WordMod - 2 THEN s.Capacity
    ELSE IF off = WordMod - 3 THEN s.Size
    ELSE IF off < Len(s.Data) THEN s.Data[off + 1]
    ELSE Uninit

\* A store of c to the cell at offset off; a store outside the block leaves
\* the array as it is.
StoreCell(s, off, c) ==
    IF off = WordMod - 1 THEN [s EXCEPT !.Elemsize = c]
    ELSE IF off = WordMod - 2 THEN [s EXCEPT !.Capacity = c]
    ELSE IF off = WordMod - 3 THEN [s EXCEPT !.Size = c]
    ELSE IF off < Len(s.Data) THEN [s EXCEPT !.Data[off + 1] = c]
    ELSE s

RECURSIVE StoreCells(_, _, _)
\* The stores of a copy that leaves the data part: what lands in the block,
\* header included, is stored.
StoreCells(s, off, block) ==
    IF block = <<>> THEN s
    ELSE StoreCells(StoreCell(s, off, Head(block)), off + 1, Tail(block))

\* SHRN_MEMMOVE that leaves the data part: n cells read, then stored.
MoveCells(s, dst, src, n) ==
    StoreCells(s, dst, [j \in 1 .. n |-> LoadCell(s, src + j - 1)])

\* SHRN_REALLOC that succeeds: the block keeps its first cells, new ones are
\* unwritten.
Realloc(data, room) ==
    [i \in 1 .. room |-> IF i <= Len(data) THEN data[i] ELSE Uninit]

(***************************************************************************)
(* The internal functions, as functions of the vector state s.             *)
(* env.alloc: whether the allocator call of this operation succeeds.       *)
(* env.ub: the outcome of undefined behaviour, should the operation hit it.*)
(***************************************************************************)
NoVector ==
    [h |-> "none", Size |-> 0, Capacity |-> 0, Elemsize |-> 0, Data |-> <<>>,
     errs |-> 0, msg |-> "", ret |-> RetNone, fault |-> "none", oom |-> FALSE,
     leak |-> FALSE, alloced |-> FALSE, seen |-> <<>>]

SUTL_InternalVectorNew(s, elemsize, env) ==
    IF ~env.alloc
    THEN [SUTLErrorHandler(s, MsgMalloc) EXCEPT !.h = "null", !.ret = RetNull,
                                                 !.oom = TRUE, !.alloced = TRUE]
    ELSE [s EXCEPT !.h = "ok", !.Size = 0, !.Capacity = 0, !.Elemsize = elemsize,
                   !.Data = <<>>, !.ret = RetPtr(0), !.alloced = TRUE]

\* SUTL_InternalVectorReserve past its guard: the reallocation to size elements.
VectorReserveRealloc(s, size, env) ==
    LET requiredSize == (HeaderSize + ((size * s.Elemsize) % WordMod)) % WordMod
        a == [s EXCEPT !.alloced = TRUE]
    IN  IF ~env.alloc
        THEN [SUTLErrorHandler(a, MsgRealloc) EXCEPT !.h = "null", !.oom = TRUE,
                                                     !.leak = TRUE]
        ELSE IF requiredSize < HeaderSize
        THEN \* the block is shorter than the header that is written next
             Fault([a EXCEPT !.Data = <<>>, !.Capacity = size], env)
        ELSE [a EXCEPT !.Data = Realloc(s.Data, requiredSize - HeaderSize),
                       !.Capacity = size]

\* Mutant: the guard reports the error and falls through to the reallocation.
Mutant_ReserveNoReturn(s, size, env) ==
    IF size < s.Size
    THEN VectorReserveRealloc(SUTLErrorHandler(s, MsgReserve), size, env)
    ELSE VectorReserveRealloc(s, size, env)

SUTL_InternalVectorReserve(s, size, env) ==
    IF size < s.Size
    THEN SUTLErrorHandler(s, MsgReserve)
    ELSE VectorReserveRealloc(s, size, env)

\* Mutant: the reserve is decided on Size alone, the capacity test dropped.
Mutant_ResizeIgnoresCapacity(s, size, env) ==
    LET s1 == IF s.Size < size
              THEN SUTL_InternalVectorReserve(s, (size + GrowthSlack) % WordMod, env)
              ELSE s
    IN  IF s1.fault = "crash" THEN s1
        ELSE IF s1.h = "null" THEN Fault(s1, env)
        ELSE [s1 EXCEPT !.Size = size]

SUTL_InternalVectorResize(s, size, env) ==
    LET s1 == IF s.Size < size /\ s.Capacity < size
              THEN SUTL_InternalVectorReserve(s, (size + GrowthSlack) % WordMod, env)
              ELSE s
    IN  IF s1.fault = "crash" THEN s1
        ELSE IF s1.h = "null" THEN Fault(s1, env)
        ELSE [s1 EXCEPT !.Size = size]

\* SUTL_InternalVectorInsertN past its guard: resize, shift, copy.
VectorInsertShiftCopy(s, at, ptr, count, env) ==
    LET originalSize == s.Size
        s1 == SUTL_InternalVectorResize(s, (originalSize + count) % WordMod, env)
        dst == SUTLVectorOffset(s1, (at + count) % WordMod)
        src == SUTLVectorOffset(s1, at)
        n == ((originalSize - at) * s1.Elemsize) % WordMod
        moveOk == InBlock(s1, dst, n) /\ InBlock(s1, src, n)
        s2 == IF at # originalSize
              THEN (IF moveOk
                    THEN [s1 EXCEPT !.Data = MemMove(s1.Data, dst, src, n)]
                    ELSE MoveCells(Fault(s1, env), dst, src, n))
              ELSE s1
        to == SUTLVectorOffset(s2, at)
        len == (s2.Elemsize * count) % WordMod
        block == [j \in 1 .. len |-> IF j <= Len(ptr) THEN ptr[j] ELSE Uninit]
    IN  IF s1.fault = "crash" THEN s1
        ELSE IF s1.h = "null" THEN Fault(s1, env)
        ELSE IF s2.fault = "crash" THEN [s1 EXCEPT !.fault = "crash"]
        ELSE IF InBlock(s2, to, len)
        THEN [s2 EXCEPT !.Data = MemCpy(s2.Data, to, block), !.ret = RetPtr(to)]
        ELSE IF Fault(s2, env).fault = "crash" THEN Fault(s2, env)
        ELSE [StoreCells(Fault(s2, env), to, block) EXCEPT !.ret = RetPtr(to)]

\* Mutant: the index is checked against Capacity instead of Size.
Mutant_InsertNChecksCapacity(s, at, ptr, count, env) ==
    IF at > s.Capacity
    THEN [SUTLErrorHandler(s, MsgInsert) EXCEPT !.ret = RetNull]
    ELSE VectorInsertShiftCopy(s, at, ptr, count, env)

SUTL_InternalVectorInsertN(s, at, ptr, count, env) ==
    IF at > s.Size
    THEN [SUTLErrorHandler(s, MsgInsert) EXCEPT !.ret = RetNull]
    ELSE VectorInsertShiftCopy(s, at, ptr, count, env)

\* #define SUTLVectorFree(v): SHRN_FREE of the block of v.  Freeing through a
\* null handle, or a block already freed, is undefined.
SUTLVectorFree(s, env) ==
    IF s.h = "ok" THEN [NoVector EXCEPT !.h = "freed", !.fault = s.fault]
    ELSE Fault(s, env)

\* Mutant: the index is checked against Capacity instead of Size.
Mutant_EraseNChecksCapacity(s, at, cnt, env) ==
    LET rejected == (at + cnt) % WordMod > s.Size /\ at > s.Capacity
        count == IF (at + cnt) % WordMod > s.Size THEN (s.Size - at) % WordMod ELSE cnt
        dst == SUTLVectorOffset(s, at)
        src == SUTLVectorOffset(s, (at + count) % WordMod)
        n == (((s.Size - count - at) % WordMod) * s.Elemsize) % WordMod
        moveOk == InBlock(s, dst, n) /\ InBlock(s, src, n)
        s1 == IF (at + count) % WordMod # s.Size
              THEN (IF moveOk
                    THEN [s EXCEPT !.Data = MemMove(s.Data, dst, src, n)]
                    ELSE MoveCells(Fault(s, env), dst, src, n))
              ELSE s
    IN  IF rejected THEN SUTLErrorHandler(s, MsgErase)
        ELSE IF s1.fault = "crash" THEN [s EXCEPT !.fault = "crash"]
        ELSE [s1 EXCEPT !.Size = (s1.Size - count) % WordMod]

SUTL_InternalVectorEraseN(s, at, cnt, env) ==
    LET rejected == (at + cnt) % WordMod > s.Size /\ at > s.Size
        count == IF (at + cnt) % WordMod > s.Size THEN (s.Size - at) % WordMod ELSE cnt
        dst == SUTLVectorOffset(s, at)
        src == SUTLVectorOffset(s, (at + count) % WordMod)
        n == (((s.Size - count - at) % WordMod) * s.Elemsize) % WordMod
        moveOk == InBlock(s, dst, n) /\ InBlock(s, src, n)
        s1 == IF (at + count) % WordMod # s.Size
              THEN (IF moveOk
                    THEN [s EXCEPT !.Data = MemMove(s.Data, dst, src, n)]
                    ELSE MoveCells(Fault(s, env), dst, src, n))
              ELSE s
    IN  IF rejected THEN SUTLErrorHandler(s, MsgErase)
        ELSE IF s1.fault = "crash" THEN [s EXCEPT !.fault = "crash"]
        ELSE [s1 EXCEPT !.Size = (s1.Size - count) % WordMod]

(***************************************************************************)
(* The public macros.                                                      *)
(***************************************************************************)
SUTLVectorInsert(s, at, elem, env) ==
    SUTL_InternalVectorInsertN(s, at, ElemCells(elem, s.Elemsize), 1, env)

SUTLVectorInsertN(s, at, xs, env) ==
    SUTL_InternalVectorInsertN(s, at, Flatten(xs, s.Elemsize), Len(xs), env)

SUTLVectorErase(s, at, env) == SUTL_InternalVectorEraseN(s, at, 1, env)

SUTLVectorPush(s, elem, env) == SUTLVectorInsert(s, s.Size, elem, env)

SUTLVectorPushN(s, xs, env) == SUTLVectorInsertN(s, s.Size, xs, env)

SUTLVectorPop(s, env) == SUTLVectorErase(s, (s.Size - 1) % WordMod, env)

SUTLVectorPopN(s, count, env) ==
    SUTL_InternalVectorEraseN(s, (s.Size - count) % WordMod, count, env)

\* The code block of SUTLVectorEach, run on the cells name points to: the block
\* <<>> only reads the element, the block <<y>> stores the value y through name.
Visit(expr, cells) ==
    IF expr = <<>> THEN cells ELSE ElemCells(expr[1], Len(cells))

RECURSIVE EachFrom(_, _, _, _)
\* The loop of SUTLVectorEach from index i on.  seen records the indices the
\* block was run for, in order.
EachFrom(s, i, expr, env) ==
    IF ~(i < s.Size) THEN s
    ELSE IF InBlock(s, s.Elemsize * i, s.Elemsize)
    THEN EachFrom([s EXCEPT !.Data = MemCpy(s.Data, s.Elemsize * i,
                                             Visit(expr, SubSeq(s.Data, s.Elemsize * i + 1,
                                                                s.Elemsize * (i + 1)))),
                            !.seen = Append(@, i)],
                  i + 1, expr, env)
    ELSE IF env.ub = "crash" THEN Fault(s, env)
    ELSE EachFrom([Fault(s, env) EXCEPT !.seen = Append(@, i)], i + 1, expr, env)

SUTLVectorEach(s, expr, env) == EachFrom(s, 0, expr, env)

(***************************************************************************)
(* The string: a vector of char, Elemsize 1.  SUTL_InternalStringSlice      *)
(* yields the pair of str as the call leaves it (the callback count and    *)
(* the fault of the call are read off it) and the slice it returns.  env   *)
(* is the environment of SUTLStringNew, env2 that of SUTLStringResize.     *)
(***************************************************************************)
\* sizeof(char).
CharSize == 1

\* Past the index guard: the new string, its resize and the copy.
StringSliceCopy(str, at, size, env, env2) ==
    LET strSize == str.Size
        size1 == IF size # 0 THEN size ELSE (strSize - at) % WordMod
        new == SUTL_InternalVectorNew(NoVector, CharSize, env)
        resized == IF new.h = "null" THEN Fault(new, env)
                   ELSE SUTL_InternalVectorResize(new, size1, env2)
        size2 == IF (at + size1) % WordMod > strSize
                 THEN (strSize - at) % WordMod ELSE size1
        bytes == [j \in 1 .. size2 |-> LoadCell(str, at + j - 1)]
        copyOk == InBlock(str, at, size2) /\ InBlock(resized, 0, size2)
        copied == IF resized.fault = "crash" \/ resized.h = "null" THEN resized
                  ELSE IF copyOk
                  THEN [resized EXCEPT !.Data = MemCpy(resized.Data, 0, bytes)]
                  ELSE IF Fault(resized, env2).fault = "crash" THEN Fault(resized, env2)
                  ELSE [Fault(resized, env2) EXCEPT
                            !.Data = MemCpy(resized.Data, 0, SubSeq(bytes, 1, Min(size2, Len(resized.Data))))]
    IN  [str |-> [str EXCEPT !.errs = copied.errs, !.msg = copied.msg,
                             !.ret = IF copied.fault = "crash" THEN RetNone
                                     ELSE IF copied.h = "ok" THEN RetPtr(0)
                                     ELSE RetNull,
                             !.fault = copied.fault, !.oom = copied.oom,
                             !.alloced = TRUE],
         slice |-> copied]

\* Mutant: the index guard lets at = length through.
Mutant_SliceAllowsEnd(str, at, size, env, env2) ==
    IF at > str.Size
    THEN [str |-> [SUTLErrorHandler(str, MsgSlice) EXCEPT !.ret = RetNull],
          slice |-> NoVector]
    ELSE StringSliceCopy(str, at, size, env, env2)

\* Mutant: the copy takes the requested size, the clamp to the length dropped.
Mutant_SliceCopiesRequested(str, at, size, env, env2) ==
    IF at >= str.Size
    THEN [str |-> [SUTLErrorHandler(str, MsgSlice) EXCEPT !.ret = RetNull],
          slice |-> NoVector]
    ELSE LET r == StringSliceCopy(str, at, size, env, env2)
             size1 == IF size # 0 THEN size ELSE (str.Size - at) % WordMod
         IN  IF r.slice.h = "ok" /\ r.slice.fault = "none"
             THEN [r EXCEPT !.slice.Data =
                       MemCpy(r.slice.Data, 0,
                              [j \in 1 .. Min(size1, Len(r.slice.Data)) |->
                                  LoadCell(str, at + j - 1)])]
             ELSE r

SUTL_InternalStringSlice(str, at, size, env, env2) ==
    IF at >= str.Size
    THEN [str |-> [SUTLErrorHandler(str, MsgSlice) EXCEPT !.ret = RetNull],
          slice |-> NoVector]
    ELSE StringSliceCopy(str, at, size, env, env2)

(***************************************************************************)
(* The hashmap of Hashmap.h.  Keys and values lie in buckets, each bucket  *)
(* a pair of vectors of char.  mop is the last call, log the Insert and    *)
(* Erase calls made since the map was created, as long as they are at     *)
(* most MaxLog.  env.junk is the outcome of comparing a key with bytes     *)
(* nobody has written.                                                     *)
(***************************************************************************)
\* SUTL_HASHMAP_BUCKET_COUNT, as the build sets it.
BucketCount == 2
\* Keys are 0 .. MaxKey: two of them share a bucket.
MaxKey == 2
\* Insert is called while the Size field is below MaxMapSize, and maps are
\* explored while no bucket holds more than MaxBucket keys or values.
MaxMapSize == 3
MaxBucket == 2
MaxLog == 3

Buckets == 0 .. BucketCount - 1

\* The bucket count the headers fall back to.
DefaultBucketCount == 32

\* What the build configures for a bucket count macro: nothing, or a value.
Configs ==
    [defined : BOOLEAN,
     value : {-1, 0, 1, BucketCount, DefaultBucketCount, DefaultBucketCount + 1}]

\* The value of SUTL_HASHMAP_BUCKET_COUNT after the #if of Hashmap.h.
SUTL_HASHMAP_BUCKET_COUNT(conf) ==
    IF ~conf.defined \/ conf.value <= 0 THEN DefaultBucketCount ELSE conf.value

\* The value of SUTL_HASHSET_BUCKET_COUNT after the #ifndef of Hashset.h.
SUTL_HASHSET_BUCKET_COUNT(conf) ==
    IF ~conf.defined THEN DefaultBucketCount ELSE conf.value
MapKeys == 0 .. MaxKey
\* sizeof(tk) and sizeof(tv), in cells.
KeySizes == {1, 2}
ValueSizes == {1, 2}

\* alloc and alloc2: whether the allocator calls made for the key vector and
\* for the value vector succeed.
MapEnvs == [alloc : BOOLEAN, alloc2 : BOOLEAN, ub : {"crash", "corrupt"}, junk : BOOLEAN]

\* A bucket vector between two calls: the results of the last call dropped.
Clean(b) ==
    [b EXCEPT !.errs = 0, !.msg = "", !.ret = RetNone, !.alloced = FALSE,
              !.seen = <<>>]

\* n cells read from offset off of b.
ReadCells(b, off, n) == [j \in 1 .. n |-> LoadCell(b, off + j - 1)]

\* What a map call returns: no pointer, NULL, or a pointer at offset off of a
\* value vector together with the cells it points to.
MapRet(kind, off, val) == [kind |-> kind, off |-> off, val |-> val]

\* A vector handle of a table: the member and, for a bucket vector, its index.
Handle(member, i) == [member |-> member, i |-> i]

\* ParamK and ParamV are the scratch vectors; the bytes the macros stage in
\* them are the kc and vc passed to the internal functions.  Hash and KeyComp
\* name the registry functions the map was created with.  freed lists the
\* handles passed to SHRN_FREE, in order.
NoMap ==
    [h |-> "none", Size |-> 0, KeySize |-> 0, ValueSize |-> 0,
     ParamK |-> NoVector, ParamV |-> NoVector, Hash |-> "none", KeyComp |-> "none",
     Keys |-> [b \in Buckets |-> NoVector],
     Values |-> [b \in Buckets |-> NoVector],
     errs |-> 0, ret |-> MapRet("none", 0, <<>>), fault |-> "none", oom |-> FALSE,
     alloced |-> FALSE, freed |-> <<>>]

\* SUTL_HASHFN_DEF_PRIMITIVE: the hash of a key is its value.
SUTLHash_int(cells) == cells[1] \div Len(cells)

\* SUTL_CMPFN_DEF_PRIMITIVE on the key in ParamK and the key at offset off of
\* bucket b; bytes nobody has written compare as env.junk says.
SUTLCmp_int(kc, b, off, env) ==
    LET c == ReadCells(b, off, Len(kc))
    IN  IF \E j \in 1 .. Len(c) : c[j] = Uninit THEN env.junk ELSE c = kc

\* The first allocator call, that of ParamK, fails when env.alloc is FALSE: the
\* resize of ParamK then reads the header of a null vector.
SUTL_InternalHashmapNew(keysize, valuesize, env) ==
    IF ~env.alloc
    THEN [NoMap EXCEPT !.h = "ok", !.KeySize = keysize, !.ValueSize = valuesize,
                       !.Hash = "SUTLHash_int", !.KeyComp = "SUTLCmp_int",
                       !.errs = 1, !.fault = env.ub, !.oom = TRUE, !.alloced = TRUE]
    ELSE [NoMap EXCEPT !.h = "ok", !.KeySize = keysize, !.ValueSize = valuesize,
                       !.Hash = "SUTLHash_int", !.KeyComp = "SUTLCmp_int",
                       !.alloced = TRUE,
                       !.ParamK = Clean(SUTL_InternalVectorResize(
                                      SUTL_InternalVectorNew(NoVector, CharSize, env),
                                      keysize, env)),
                       !.ParamV = Clean(SUTL_InternalVectorResize(
                                      SUTL_InternalVectorNew(NoVector, CharSize, env),
                                      valuesize, env)),
                       !.Keys = [b \in Buckets |->
                                   Clean(SUTL_InternalVectorNew(NoVector, CharSize, env))],
                       !.Values = [b \in Buckets |->
                                   Clean(SUTL_InternalVectorNew(NoVector, CharSize, env))]]

RECURSIVE InsertScan(_, _, _, _, _, _)
\* The search loop of Insert: every entry is compared, the last match stays.
InsertScan(b, kc, ks, i, value, env) ==
    IF ~(i < b.Size \div ks) THEN value
    ELSE InsertScan(b, kc, ks, i + 1,
                    IF SUTLCmp_int(kc, b, i * ks, env) THEN i ELSE value, env)

\* The key and the value appended to the vectors of bucket index of m1.
InsertStore(m1, index, k1, v1) ==
    IF k1.fault = "crash"
    THEN [m1 EXCEPT !.Keys[index] = Clean(k1), !.errs = k1.errs,
                    !.fault = "crash", !.oom = k1.oom, !.alloced = k1.alloced]
    ELSE [m1 EXCEPT !.Keys[index] = Clean(k1), !.Values[index] = Clean(v1),
                    !.errs = k1.errs + v1.errs,
                    !.fault = IF k1.fault # "none" THEN k1.fault ELSE v1.fault,
                    !.oom = k1.oom \/ v1.oom,
                    !.alloced = k1.alloced \/ v1.alloced,
                    !.ret = IF v1.ret.kind = "ptr"
                            THEN MapRet("ptr", v1.ret.off,
                                        ReadCells(v1, v1.ret.off, m1.ValueSize))
                            ELSE MapRet("null", 0, <<>>)]

\* Mutant: the key and the value are appended without the search.
Mutant_InsertAlwaysAppends(m, kc, vc, env) ==
    LET index == SUTLHash_int(kc) % BucketCount
        m1 == [m EXCEPT !.Size = (m.Size + 1) % WordMod]
    IN  CHOOSE r \in
            {InsertStore(m1, index, k1, v1) :
               k1 \in {SUTL_InternalVectorInsertN(m.Keys[index], m.Keys[index].Size,
                                                  kc, m.KeySize, env)},
               v1 \in {SUTL_InternalVectorInsertN(m.Values[index],
                                                  m.Values[index].Size, vc,
                                                  m.ValueSize,
                                                  [env EXCEPT !.alloc = env.alloc2])}}
            : TRUE

SUTL_InternalHashmapInsert(m, kc, vc, env) ==
    LET index == SUTLHash_int(kc) % BucketCount
        m1 == [m EXCEPT !.Size = (m.Size + 1) % WordMod]
        i == InsertScan(m.Keys[index], kc, m.KeySize, 0, -1, env)
    IN  IF i # -1
        THEN [m1 EXCEPT !.ret = MapRet("ptr", i * m.KeySize,
                                       ReadCells(m.Values[index], i * m.KeySize,
                                                 m.ValueSize))]
        ELSE CHOOSE r \in
                 {InsertStore(m1, index, k1, v1) :
                    k1 \in {SUTL_InternalVectorInsertN(m.Keys[index], m.Keys[index].Size,
                                                       kc, m.KeySize, env)},
                    v1 \in {SUTL_InternalVectorInsertN(m.Values[index],
                                                       m.Values[index].Size, vc,
                                                       m.ValueSize,
                                                       [env EXCEPT !.alloc = env.alloc2])}}
                 : TRUE

RECURSIVE EraseScan(_, _, _, _, _)
\* The search loop of Erase: i runs up to the Size of the key vector, in
\* bytes.  Yields whether a key matched, at which i, and whether a key was
\* read outside the block.
EraseScan(b, kc, ks, i, env) ==
    IF ~(i < b.Size) THEN [found |-> FALSE, i |-> i, ub |-> FALSE]
    ELSE IF ~InBlock(b, i * ks, ks)
    THEN (IF env.ub = "crash" THEN [found |-> FALSE, i |-> i, ub |-> TRUE]
          ELSE IF env.junk THEN [found |-> TRUE, i |-> i, ub |-> TRUE]
          ELSE [EraseScan(b, kc, ks, i + 1, env) EXCEPT !.ub = TRUE])
    ELSE IF SUTLCmp_int(kc, b, i * ks, env) THEN [found |-> TRUE, i |-> i, ub |-> FALSE]
    ELSE EraseScan(b, kc, ks, i + 1, env)

\* Mutant: the key is erased, its value is left in the value vector.
Mutant_EraseKeepsValue(m, kc, env) ==
    LET index == SUTLHash_int(kc) % BucketCount
        scan == EraseScan(m.Keys[index], kc, m.KeySize, 0, env)
        k1 == SUTL_InternalVectorEraseN(m.Keys[index], (scan.i * m.KeySize) % WordMod,
                                        m.KeySize, env)
        m1 == IF scan.ub THEN [m EXCEPT !.fault = env.ub] ELSE m
    IN  IF ~scan.found \/ m1.fault = "crash" THEN m1
        ELSE IF k1.fault = "crash"
        THEN [m1 EXCEPT !.Keys[index] = Clean(k1), !.errs = k1.errs, !.fault = "crash"]
        ELSE [m1 EXCEPT !.Keys[index] = Clean(k1), !.errs = k1.errs,
                        !.fault = IF m1.fault # "none" THEN m1.fault ELSE k1.fault,
                        !.Size = (m.Size - 1) % WordMod]

\* Mutant: Size is decremented whether or not the key was found.
Mutant_EraseAlwaysDecrements(m, kc, env) ==
    LET index == SUTLHash_int(kc) % BucketCount
        scan == EraseScan(m.Keys[index], kc, m.KeySize, 0, env)
        k1 == SUTL_InternalVectorEraseN(m.Keys[index], (scan.i * m.KeySize) % WordMod,
                                        m.KeySize, env)
        v1 == SUTL_InternalVectorEraseN(m.Values[index],
                                        (scan.i * m.ValueSize) % WordMod,
                                        m.ValueSize, env)
        m1 == IF scan.ub THEN [m EXCEPT !.fault = env.ub] ELSE m
    IN  IF ~scan.found \/ m1.fault = "crash"
        THEN [m1 EXCEPT !.Size = (m.Size - 1) % WordMod]
        ELSE IF k1.fault = "crash"
        THEN [m1 EXCEPT !.Keys[index] = Clean(k1), !.errs = k1.errs, !.fault = "crash"]
        ELSE [m1 EXCEPT !.Keys[index] = Clean(k1), !.Values[index] = Clean(v1),
                        !.errs = k1.errs + v1.errs,
                        !.fault = IF m1.fault # "none" THEN m1.fault
                                  ELSE IF k1.fault # "none" THEN k1.fault
                                  ELSE v1.fault,
                        !.Size = (m.Size - 1) % WordMod]

\* Mutant: the value erased is the first of the bucket, not that of the key.
Mutant_EraseFirstValue(m, kc, env) ==
    LET index == SUTLHash_int(kc) % BucketCount
        scan == EraseScan(m.Keys[index], kc, m.KeySize, 0, env)
        k1 == SUTL_InternalVectorEraseN(m.Keys[index], (scan.i * m.KeySize) % WordMod,
                                        m.KeySize, env)
        v1 == SUTL_InternalVectorEraseN(m.Values[index], 0, m.ValueSize, env)
        m1 == IF scan.ub THEN [m EXCEPT !.fault = env.ub] ELSE m
    IN  IF ~scan.found \/ m1.fault = "crash" THEN m1
        ELSE IF k1.fault = "crash"
        THEN [m1 EXCEPT !.Keys[index] = Clean(k1), !.errs = k1.errs, !.fault = "crash"]
        ELSE [m1 EXCEPT !.Keys[index] = Clean(k1), !.Values[index] = Clean(v1),
                        !.errs = k1.errs + v1.errs,
                        !.fault = IF m1.fault # "none" THEN m1.fault
                                  ELSE IF k1.fault # "none" THEN k1.fault
                                  ELSE v1.fault,
                        !.Size = (m.Size - 1) % WordMod]

SUTL_InternalHashmapErase(m, kc, env) ==
    LET index == SUTLHash_int(kc) % BucketCount
        scan == EraseScan(m.Keys[index], kc, m.KeySize, 0, env)
        k1 == SUTL_InternalVectorEraseN(m.Keys[index], (scan.i * m.KeySize) % WordMod,
                                        m.KeySize, env)
        v1 == SUTL_InternalVectorEraseN(m.Values[index],
                                        (scan.i * m.ValueSize) % WordMod,
                                        m.ValueSize, env)
        m1 == IF scan.ub THEN [m EXCEPT !.fault = env.ub] ELSE m
    IN  IF ~scan.found \/ m1.fault = "crash" THEN m1
        ELSE IF k1.fault = "crash"
        THEN [m1 EXCEPT !.Keys[index] = Clean(k1), !.errs = k1.errs, !.fault = "crash"]
        ELSE [m1 EXCEPT !.Keys[index] = Clean(k1), !.Values[index] = Clean(v1),
                        !.errs = k1.errs + v1.errs,
                        !.fault = IF m1.fault # "none" THEN m1.fault
                                  ELSE IF k1.fault # "none" THEN k1.fault
                                  ELSE v1.fault,
                        !.Size = (m.Size - 1) % WordMod]

RECURSIVE GetScan(_, _, _, _, _)
\* The search loop of Get: the index of the first match, -1 when none.
GetScan(b, kc, ks, i, env) ==
    IF ~(i < b.Size \div ks) THEN -1
    ELSE IF SUTLCmp_int(kc, b, i * ks, env) THEN i
    ELSE GetScan(b, kc, ks, i + 1, env)

SUTL_InternalHashmapGet(m, kc, env) ==
    LET index == SUTLHash_int(kc) % BucketCount
        i == GetScan(m.Keys[index], kc, m.KeySize, 0, env)
    IN  IF i = -1 THEN [m EXCEPT !.ret = MapRet("null", 0, <<>>)]
        ELSE [m EXCEPT !.ret = MapRet("ptr", i * m.ValueSize,
                                      ReadCells(m.Values[index], i * m.ValueSize,
                                                m.ValueSize))]

\* The handles SUTL_InternalHashmapFree passes to SHRN_FREE, in order.
MapFreeOrder ==
    [n \in 1 .. 2 * BucketCount |->
        IF n % 2 = 1 THEN Handle("Values", (n - 1) \div 2)
        ELSE Handle("Keys", (n - 1) \div 2)]
    \o <<Handle("ParamV", 0), Handle("ParamK", 0)>>

\* Mutant: the scratch vector of the value is not freed.
Mutant_MapFreeKeepsParamV(m, env) ==
    LET keys == [b \in Buckets |-> SUTLVectorFree(m.Keys[b], env)]
        values == [b \in Buckets |-> SUTLVectorFree(m.Values[b], env)]
        pk == SUTLVectorFree(m.ParamK, env)
        bad == \/ \E b \in Buckets : keys[b].fault # "none" \/ values[b].fault # "none"
               \/ pk.fault # "none"
    IN  [m EXCEPT !.h = "freed", !.Keys = keys, !.Values = values, !.ParamK = pk,
                  !.fault = IF bad THEN env.ub ELSE m.fault,
                  !.freed = m.freed \o SelectSeq(MapFreeOrder,
                                                LAMBDA x : x.member # "ParamV")]

SUTL_InternalHashmapFree(m, env) ==
    LET keys == [b \in Buckets |-> SUTLVectorFree(m.Keys[b], env)]
        values == [b \in Buckets |-> SUTLVectorFree(m.Values[b], env)]
        pv == SUTLVectorFree(m.ParamV, env)
        pk == SUTLVectorFree(m.ParamK, env)
        bad == \/ \E b \in Buckets : keys[b].fault # "none" \/ values[b].fault # "none"
               \/ pv.fault # "none" \/ pk.fault # "none"
    IN  [m EXCEPT !.h = "freed", !.Keys = keys, !.Values = values,
                  !.ParamV = pv, !.ParamK = pk,
                  !.fault = IF bad THEN env.ub ELSE m.fault,
                  !.freed = m.freed \o MapFreeOrder]

\* The macros: the key and the value are stored to ParamK and ParamV first.
SUTLHashmapInsert(m, k, v, env) ==
    SUTL_InternalHashmapInsert(m, ElemCells(k, m.KeySize), ElemCells(v, m.ValueSize), env)

SUTLHashmapErase(m, k, env) == SUTL_InternalHashmapErase(m, ElemCells(k, m.KeySize), env)

SUTLHashmapGet(m, k, env) == SUTL_InternalHashmapGet(m, ElemCells(k, m.KeySize), env)

\* Mutant: every key is paired with the first value of its bucket.
Mutant_EachPairsFirstValue(m, i, j) ==
    <<ReadCells(m.Keys[i], j * m.KeySize, m.KeySize),
      ReadCells(m.Values[i], 0, m.ValueSize)>>

\* The body of SUTLHashmapEach for entry j of bucket i: name_k and name_v point
\* at element j of the key and value vectors, expr reads both.
MapVisit(m, i, j) ==
    <<ReadCells(m.Keys[i], j * m.KeySize, m.KeySize),
      ReadCells(m.Values[i], j * m.ValueSize, m.ValueSize)>>

RECURSIVE MapEachFrom(_, _, _)
\* The loops of SUTLHashmapEach from entry j of bucket i on: what expr sees.
MapEachFrom(m, i, j) ==
    IF ~(i < BucketCount) THEN <<>>
    ELSE IF ~(j < m.Keys[i].Size \div m.KeySize) THEN MapEachFrom(m, i + 1, 0)
    ELSE <<MapVisit(m, i, j)>> \o MapEachFrom(m, i, j + 1)

\* SUTLHashmapEach: a read of a key or a value outside its block is undefined.
SUTLHashmapEach(m, env) ==
    LET inside == \A i \in Buckets :
                      \A j \in 0 .. m.Keys[i].Size \div m.KeySize - 1 :
                          /\ InBlock(m.Keys[i], j * m.KeySize, m.KeySize)
                          /\ InBlock(m.Values[i], j * m.ValueSize, m.ValueSize)
    IN  [m EXCEPT !.ret = MapRet("each", 0, MapEachFrom(m, 0, 0)),
                  !.fault = IF inside THEN m.fault ELSE env.ub]

MapCall(name, key, value) == [name |-> name, key |-> key, value |-> value]

NoMapCall == MapCall("none", 0, 0)

\* The map as a call finds it: the callback count starts at 0.
MapEntry ==
    [hm EXCEPT !.errs = 0, !.ret = MapRet("none", 0, <<>>), !.alloced = FALSE]

\* The outcomes of a map call, given as the function f from environments to
\* results: one outcome when the call neither calls the allocator, nor hits
\* undefined behaviour, nor depends on a comparison with unwritten bytes.
MapOutcomes(f) ==
    LET a == f[[alloc |-> TRUE, alloc2 |-> TRUE, ub |-> "corrupt", junk |-> FALSE]]
        b == f[[alloc |-> TRUE, alloc2 |-> TRUE, ub |-> "corrupt", junk |-> TRUE]]
    IN  IF a = b /\ a.fault = "none" /\ ~a.alloced THEN {a}
        ELSE {f[env] : env \in MapEnvs}

MapUsable == hm.h = "ok" /\ hm.fault = "none"

\* The log once more than MaxLog calls were made.
LogFull == <<MapCall("more", 0, 0)>>

\* The log with one more call.
Logged(c) == IF log # LogFull /\ Len(log) < MaxLog THEN Append(log, c) ELSE LogFull

\* The part of the state space explored.
MapExplored(m) ==
    \A b \in Buckets : /\ m.Keys[b].Size <= MaxBucket * m.KeySize
                        /\ m.Values[b].Size <= MaxBucket * m.ValueSize

MapNew ==
    /\ hm.h = "none"
    /\ hs.h = "none"
    /\ \E ks \in KeySizes, vs \in ValueSizes :
        /\ hm' \in MapOutcomes([env \in MapEnvs |-> SUTL_InternalHashmapNew(ks, vs, env)])
        /\ mop' = MapCall("New", ks, vs)
    /\ log' = <<>>
    /\ UNCHANGED <<vecvars, setvars, hashvars>>

MapInsert ==
    /\ MapUsable
    /\ hm.Size < MaxMapSize
    /\ \E k \in MapKeys, v \in Vals :
        /\ hm' \in MapOutcomes([env \in MapEnvs |-> SUTLHashmapInsert(MapEntry, k, v, env)])
        /\ MapExplored(hm')
        /\ mop' = MapCall("Insert", k, v)
        /\ log' = Logged(MapCall("Insert", k, v))
    /\ UNCHANGED <<vecvars, setvars, hashvars>>

MapErase ==
    /\ MapUsable
    /\ \E k \in MapKeys :
        /\ hm' \in MapOutcomes([env \in MapEnvs |-> SUTLHashmapErase(MapEntry, k, env)])
        /\ mop' = MapCall("Erase", k, 0)
        /\ log' = Logged(MapCall("Erase", k, 0))
    /\ UNCHANGED <<vecvars, setvars, hashvars>>

MapGet ==
    /\ MapUsable
    /\ \E k \in MapKeys :
        /\ hm' \in MapOutcomes([env \in MapEnvs |-> SUTLHashmapGet(MapEntry, k, env)])
        /\ mop' = MapCall("Get", k, 0)
    /\ log' = log
    /\ UNCHANGED <<vecvars, setvars, hashvars>>

MapEach ==
    /\ MapUsable
    /\ hm' \in MapOutcomes([env \in MapEnvs |-> SUTLHashmapEach(MapEntry, env)])
    /\ mop' = MapCall("Each", 0, 0)
    /\ log' = log
    /\ UNCHANGED <<vecvars, setvars, hashvars>>

\* SUTLHashmapFree: the caller is done with the map.
MapFree ==
    /\ MapUsable
    /\ hm' \in MapOutcomes([env \in MapEnvs |-> SUTL_InternalHashmapFree(MapEntry, env)])
    /\ mop' = MapCall("Free", 0, 0)
    /\ log' = log
    /\ UNCHANGED <<vecvars, setvars, hashvars>>

NextMap ==
    \/ MapNew
    \/ MapInsert
    \/ MapErase
    \/ MapGet
    \/ MapEach
    \/ MapFree

(***************************************************************************)
(* The hashset of Hashset.h: the hashmap without the value vectors.  Its   *)
(* search loops are those of the hashmap, on the Keys vector of a bucket.  *)
(***************************************************************************)
NoSet ==
    [h |-> "none", Size |-> 0, KeySize |-> 0,
     ParamK |-> NoVector, Hash |-> "none", KeyComp |-> "none",
     Keys |-> [b \in Buckets |-> NoVector],
     errs |-> 0, ret |-> MapRet("none", 0, <<>>), fault |-> "none", oom |-> FALSE,
     alloced |-> FALSE, freed |-> <<>>]

\* As for the map, the first allocator call is that of ParamK.
SUTL_InternalHashsetNew(keysize, env) ==
    IF ~env.alloc
    THEN [NoSet EXCEPT !.h = "ok", !.KeySize = keysize, !.errs = 1, !.fault = env.ub,
                       !.Hash = "SUTLHash_int", !.KeyComp = "SUTLCmp_int",
                       !.oom = TRUE, !.alloced = TRUE]
    ELSE [NoSet EXCEPT !.h = "ok", !.KeySize = keysize, !.alloced = TRUE,
                       !.Hash = "SUTLHash_int", !.KeyComp = "SUTLCmp_int",
                       !.ParamK = Clean(SUTL_InternalVectorResize(
                                      SUTL_InternalVectorNew(NoVector, CharSize, env),
                                      keysize, env)),
                       !.Keys = [b \in Buckets |->
                                   Clean(SUTL_InternalVectorNew(NoVector, CharSize, env))]]

\* The key appended to the vector of bucket index of s1.
SetInsertStore(s1, index, k1) ==
    [s1 EXCEPT !.Keys[index] = Clean(k1), !.errs = k1.errs, !.fault = k1.fault,
               !.oom = k1.oom, !.alloced = k1.alloced,
               !.ret = IF k1.fault # "crash" /\ k1.ret.kind = "ptr"
                       THEN MapRet("ptr", k1.ret.off,
                                   ReadCells(k1, k1.ret.off, s1.KeySize))
                       ELSE MapRet("null", 0, <<>>)]

\* Mutant: Size counts the keys stored, a key already present is not counted.
Mutant_SetInsertCountsNewKeys(s, kc, env) ==
    LET index == SUTLHash_int(kc) % BucketCount
        s1 == [s EXCEPT !.Size = (s.Size + 1) % WordMod]
        i == InsertScan(s.Keys[index], kc, s.KeySize, 0, -1, env)
    IN  IF i # -1
        THEN [s EXCEPT !.ret = MapRet("ptr", i * s.KeySize,
                                      ReadCells(s.Keys[index], i * s.KeySize, s.KeySize))]
        ELSE CHOOSE r \in
                 {SetInsertStore(s1, index, k1) :
                    k1 \in {SUTL_InternalVectorInsertN(s.Keys[index], s.Keys[index].Size,
                                                       kc, s.KeySize, env)}} : TRUE

\* Mutant: every key goes to bucket 0, whatever its hash.
Mutant_SetInsertFirstBucket(s, kc, env) ==
    LET index == 0
        s1 == [s EXCEPT !.Size = (s.Size + 1) % WordMod]
        i == InsertScan(s.Keys[index], kc, s.KeySize, 0, -1, env)
    IN  IF i # -1
        THEN [s1 EXCEPT !.ret = MapRet("ptr", i * s.KeySize,
                                       ReadCells(s.Keys[index], i * s.KeySize, s.KeySize))]
        ELSE CHOOSE r \in
                 {SetInsertStore(s1, index, k1) :
                    k1 \in {SUTL_InternalVectorInsertN(s.Keys[index], s.Keys[index].Size,
                                                       kc, s.KeySize, env)}} : TRUE

SUTL_InternalHashsetInsert(s, kc, env) ==
    LET index == SUTLHash_int(kc) % BucketCount
        s1 == [s EXCEPT !.Size = (s.Size + 1) % WordMod]
        i == InsertScan(s.Keys[index], kc, s.KeySize, 0, -1, env)
    IN  IF i # -1
        THEN [s1 EXCEPT !.ret = MapRet("ptr", i * s.KeySize,
                                       ReadCells(s.Keys[index], i * s.KeySize, s.KeySize))]
        ELSE CHOOSE r \in
                 {SetInsertStore(s1, index, k1) :
                    k1 \in {SUTL_InternalVectorInsertN(s.Keys[index], s.Keys[index].Size,
                                                       kc, s.KeySize, env)}} : TRUE

\* Mutant: Size is decremented whether or not the key was found.
Mutant_SetEraseAlwaysDecrements(s, kc, env) ==
    LET index == SUTLHash_int(kc) % BucketCount
        scan == EraseScan(s.Keys[index], kc, s.KeySize, 0, env)
        k1 == SUTL_InternalVectorEraseN(s.Keys[index], (scan.i * s.KeySize) % WordMod,
                                        s.KeySize, env)
        s1 == IF scan.ub THEN [s EXCEPT !.fault = env.ub] ELSE s
    IN  IF ~scan.found \/ s1.fault = "crash"
        THEN [s1 EXCEPT !.Size = (s.Size - 1) % WordMod]
        ELSE IF k1.fault = "crash"
        THEN [s1 EXCEPT !.Keys[index] = Clean(k1), !.errs = k1.errs, !.fault = "crash"]
        ELSE [s1 EXCEPT !.Keys[index] = Clean(k1), !.errs = k1.errs,
                        !.fault = IF s1.fault # "none" THEN s1.fault ELSE k1.fault,
                        !.Size = (s.Size - 1) % WordMod]

SUTL_InternalHashsetErase(s, kc, env) ==
    LET index == SUTLHash_int(kc) % BucketCount
        scan == EraseScan(s.Keys[index], kc, s.KeySize, 0, env)
        k1 == SUTL_InternalVectorEraseN(s.Keys[index], (scan.i * s.KeySize) % WordMod,
                                        s.KeySize, env)
        s1 == IF scan.ub THEN [s EXCEPT !.fault = env.ub] ELSE s
    IN  IF ~scan.found \/ s1.fault = "crash" THEN s1
        ELSE IF k1.fault = "crash"
        THEN [s1 EXCEPT !.Keys[index] = Clean(k1), !.errs = k1.errs, !.fault = "crash"]
        ELSE [s1 EXCEPT !.Keys[index] = Clean(k1), !.errs = k1.errs,
                        !.fault = IF s1.fault # "none" THEN s1.fault ELSE k1.fault,
                        !.Size = (s.Size - 1) % WordMod]

SUTL_InternalHashsetGet(s, kc, env) ==
    LET index == SUTLHash_int(kc) % BucketCount
        i == GetScan(s.Keys[index], kc, s.KeySize, 0, env)
    IN  IF i = -1 THEN [s EXCEPT !.ret = MapRet("null", 0, <<>>)]
        ELSE [s EXCEPT !.ret = MapRet("ptr", i * s.KeySize,
                                      ReadCells(s.Keys[index], i * s.KeySize, s.KeySize))]

\* The handles SUTL_InternalHashsetFree passes to SHRN_FREE, in order.
SetFreeOrder ==
    [n \in 1 .. BucketCount |-> Handle("Keys", n - 1)] \o <<Handle("ParamK", 0)>>

SUTL_InternalHashsetFree(s, env) ==
    LET keys == [b \in Buckets |-> SUTLVectorFree(s.Keys[b], env)]
        pk == SUTLVectorFree(s.ParamK, env)
        bad == (\E b \in Buckets : keys[b].fault # "none") \/ pk.fault # "none"
    IN  [s EXCEPT !.h = "freed", !.Keys = keys, !.ParamK = pk,
                  !.fault = IF bad THEN env.ub ELSE s.fault,
                  !.freed = s.freed \o SetFreeOrder]

\* The macros: the key is stored to ParamK first.
SUTLHashsetInsert(s, k, env) == SUTL_InternalHashsetInsert(s, ElemCells(k, s.KeySize), env)

SUTLHashsetErase(s, k, env) == SUTL_InternalHashsetErase(s, ElemCells(k, s.KeySize), env)

SUTLHashsetGet(s, k, env) == SUTL_InternalHashsetGet(s, ElemCells(k, s.KeySize), env)

\* The body of SUTLHashsetEach for entry j of bucket i.
SetVisit(s, i, j) == ReadCells(s.Keys[i], j * s.KeySize, s.KeySize)

RECURSIVE SetEachFrom(_, _, _)
\* The loops of SUTLHashsetEach from entry j of bucket i on: what expr sees.
SetEachFrom(s, i, j) ==
    IF ~(i < BucketCount) THEN <<>>
    ELSE IF ~(j < s.Keys[i].Size \div s.KeySize) THEN SetEachFrom(s, i + 1, 0)
    ELSE <<SetVisit(s, i, j)>> \o SetEachFrom(s, i, j + 1)

SUTLHashsetEach(s, env) ==
    LET inside == \A i \in Buckets :
                      \A j \in 0 .. s.Keys[i].Size \div s.KeySize - 1 :
                          InBlock(s.Keys[i], j * s.KeySize, s.KeySize)
    IN  [s EXCEPT !.ret = MapRet("each", 0, SetEachFrom(s, 0, 0)),
                  !.fault = IF inside THEN s.fault ELSE env.ub]

\* The set as a call finds it: the callback count starts at 0.
SetEntry ==
    [hs EXCEPT !.errs = 0, !.ret = MapRet("none", 0, <<>>), !.alloced = FALSE]

SetUsable == hs.h = "ok" /\ hs.fault = "none"

\* The log of the set with one more call.
SetLogged(c) == IF slog # LogFull /\ Len(slog) < MaxLog THEN Append(slog, c) ELSE LogFull

SetExplored(s) == \A b \in Buckets : s.Keys[b].Size <= MaxBucket * s.KeySize

SetNew ==
    /\ hs.h = "none"
    /\ hm.h = "none"
    /\ \E ks \in KeySizes :
        /\ hs' \in MapOutcomes([env \in MapEnvs |-> SUTL_InternalHashsetNew(ks, env)])
        /\ sop' = MapCall("New", ks, 0)
    /\ slog' = <<>>
    /\ UNCHANGED <<vecvars, mapvars, hashvars>>

SetInsert ==
    /\ SetUsable
    /\ hs.Size < MaxMapSize
    /\ \E k \in MapKeys :
        /\ hs' \in MapOutcomes([env \in MapEnvs |-> SUTLHashsetInsert(SetEntry, k, env)])
        /\ SetExplored(hs')
        /\ sop' = MapCall("Insert", k, 0)
        /\ slog' = SetLogged(MapCall("Insert", k, 0))
    /\ UNCHANGED <<vecvars, mapvars, hashvars>>

SetErase ==
    /\ SetUsable
    /\ \E k \in MapKeys :
        /\ hs' \in MapOutcomes([env \in MapEnvs |-> SUTLHashsetErase(SetEntry, k, env)])
        /\ sop' = MapCall("Erase", k, 0)
        /\ slog' = SetLogged(MapCall("Erase", k, 0))
    /\ UNCHANGED <<vecvars, mapvars, hashvars>>

SetGet ==
    /\ SetUsable
    /\ \E k \in MapKeys :
        /\ hs' \in MapOutcomes([env \in MapEnvs |-> SUTLHashsetGet(SetEntry, k, env)])
        /\ sop' = MapCall("Get", k, 0)
    /\ slog' = slog
    /\ UNCHANGED <<vecvars, mapvars, hashvars>>

SetEach ==
    /\ SetUsable
    /\ hs' \in MapOutcomes([env \in MapEnvs |-> SUTLHashsetEach(SetEntry, env)])
    /\ sop' = MapCall("Each", 0, 0)
    /\ slog' = slog
    /\ UNCHANGED <<vecvars, mapvars, hashvars>>

\* SUTLHashsetFree: the caller is done with the set.
SetFree ==
    /\ SetUsable
    /\ hs' \in MapOutcomes([env \in MapEnvs |-> SUTL_InternalHashsetFree(SetEntry, env)])
    /\ sop' = MapCall("Free", 0, 0)
    /\ slog' = slog
    /\ UNCHANGED <<vecvars, mapvars, hashvars>>

NextSet ==
    \/ SetNew
    \/ SetInsert
    \/ SetErase
    \/ SetGet
    \/ SetEach
    \/ SetFree

\* Either table, whichever the caller creates.
NextTable ==
    \/ NextMap
    \/ NextSet

(***************************************************************************)
(* The hash registry (HashUtils).  A key is the bytes the caller stages,   *)
(* a byte one of 0 .. ByteMod - 1, the word of the hash WordBytes bytes.   *)
(* hcall is the last call of a registry function, hres what it returned.   *)
(***************************************************************************)
\* Byte values are 0 .. ByteMod - 1 (UCHAR_MAX + 1, scaled down).
ByteMod == 4
\* sizeof(size_t), scaled down with the word: ByteMod ^ WordBytes = WordMod.
WordBytes == 2
\* Strings of up to MaxStr bytes are hashed: whole words, tails, both.
MaxStr == 4

Bytes8 == 0 .. ByteMod - 1

\* sizeof(t) of the integer key types, in bytes: narrower than the word, the
\* word, wider than the word.
KeyWidths == {1, 2, 3}

\* The fixed-width integer key types: a width and whether t is signed.
KeyTypes == [width : KeyWidths, signed : BOOLEAN]

\* The number of values of a type of n bytes.
Range(n) == ByteMod ^ n

\* The values of type t.
ValuesOf(t) ==
    IF t.signed
    THEN -(Range(t.width) \div 2) .. (Range(t.width) - 1) \div 2
    ELSE 0 .. Range(t.width) - 1

RECURSIVE ToBytes(_, _)
\* The n bytes of the unsigned value u, lowest first.
ToBytes(u, n) ==
    IF n = 0 THEN <<>> ELSE <<u % ByteMod>> \o ToBytes(u \div ByteMod, n - 1)

RECURSIVE FromBytes(_)
\* The unsigned value of a byte sequence, lowest first.
FromBytes(bytes) ==
    IF bytes = <<>> THEN 0 ELSE Head(bytes) + ByteMod * FromBytes(Tail(bytes))

\* The object representation of the value x of type t: what *(tk *)ParamK = k
\* stores.
KeyBytes(t, x) == ToBytes(x % Range(t.width), t.width)

\* Mutant: the bytes are read as an unsigned value whatever the type.
Mutant_LoadUnsigned(t, bytes) == FromBytes(bytes)

\* *(const t *)v: the value of type t the bytes at v hold.
LoadKey(t, bytes) ==
    LET u == FromBytes(bytes)
    IN  IF t.signed /\ u > (Range(t.width) - 1) \div 2 THEN u - Range(t.width) ELSE u

\* SUTL_HASHFN_DEF_PRIMITIVE: hash = *(const t *)v, converted to size_t.
SUTL_HASHFN_DEF_PRIMITIVE(t, bytes) == LoadKey(t, bytes) % WordMod

\* SUTL_CMPFN_DEF_PRIMITIVE: res = *(const t *)p0 == *(const t *)p1.
SUTL_CMPFN_DEF_PRIMITIVE(t, p0, p1) == LoadKey(t, p0) = LoadKey(t, p1)

RECURSIVE BitXor(_, _)
\* a ^ b on unsigned values.
BitXor(a, b) ==
    IF a = 0 THEN b
    ELSE IF b = 0 THEN a
    ELSE ((a + b) % 2) + 2 * BitXor(a \div 2, b \div 2)

\* hash ^= w on words, as the bytes of their object representation.
WordXor(h, w) == [j \in 1 .. WordBytes |-> BitXor(h[j], w[j])]

\* SIZE_MAX.
AllOnes == [j \in 1 .. WordBytes |-> ByteMod - 1]

RECURSIVE FoldWords(_, _, _, _)
\* for (i = 0; i < bufSize; i++) hash ^= buf[i], from i on.
FoldWords(str, bufSize, i, hash) ==
    IF ~(i < bufSize) THEN hash
    ELSE FoldWords(str, bufSize, i + 1,
                   WordXor(hash, SubSeq(str, i * WordBytes + 1, (i + 1) * WordBytes)))

\* What a registry hash returns: the word (as bytes, or as a number for the
\* primitive types), how many bytes it wrote outside its accumulator, and
\* whether it hit undefined behaviour.
HashResult(word, num, wild, fault) ==
    [word |-> word, num |-> num, wild |-> wild, fault |-> fault,
     bucket |-> num % BucketCount]

NoHashResult ==
    [word |-> <<>>, num |-> 0, wild |-> 0, fault |-> "none", bucket |-> 0]

\* What a call leaves: the hash of the first key, and for the integer types
\* the hash of the second key and the result of the comparison.
HashResults(first, second, equal) ==
    [first |-> first, second |-> second, equal |-> equal]

NoHashResults == HashResults(NoHashResult, NoHashResult, FALSE)

HashEnvs == [ub : {"crash", "corrupt"}]

\* SUTLHash_string on the string with bytes str.  The tail loop indexes
\* (char *)hash, the value of the accumulator taken as an address: it reads and
\* writes remSize bytes of foreign memory and leaves the accumulator alone.
SUTLHash_string(str, env) ==
    LET bufSize == Len(str) \div WordBytes
        remSize == Len(str) % WordBytes
        hash == FoldWords(str, bufSize, 0, AllOnes)
    IN  IF remSize # 0
        THEN (IF env.ub = "crash"
              THEN HashResult(<<>>, 0, 0, "crash")
              ELSE HashResult(hash, FromBytes(hash) % WordMod, remSize, "corrupt"))
        ELSE HashResult(hash, FromBytes(hash) % WordMod, 0, "none")

\* A call of a registry function: the function, the key type, the one or two
\* integer keys, or the string.
HashCall(fn, t, x, y, str) == [fn |-> fn, t |-> t, x |-> x, y |-> y, str |-> str]

NoType == [width |-> 0, signed |-> FALSE]

NoHashCall == HashCall("none", NoType, 0, 0, <<>>)

Strings == UNION {SeqsOfLen(Bytes8, n) : n \in 0 .. MaxStr}

\* SUTL_HASHFN(string) on a string of the caller.
HashString ==
    /\ hcall = NoHashCall
    /\ \E str \in Strings, env \in HashEnvs :
        /\ hcall' = HashCall("string", NoType, 0, 0, str)
        /\ hres' = HashResults(SUTLHash_string(str, env), NoHashResult, FALSE)
    /\ UNCHANGED <<vecvars, mapvars, setvars>>

\* SUTL_HASHFN and SUTL_CMPFN of an integer type on two keys of the type: the
\* hash of the first, that of the second, and whether they compare equal.
HashPrimitive ==
    /\ hcall = NoHashCall
    /\ \E t \in KeyTypes :
        \E x, y \in ValuesOf(t) :
            /\ hcall' = HashCall("primitive", t, x, y, <<>>)
            /\ hres' = HashResults(
                            HashResult(<<>>, SUTL_HASHFN_DEF_PRIMITIVE(t, KeyBytes(t, x)),
                                       0, "none"),
                            HashResult(<<>>, SUTL_HASHFN_DEF_PRIMITIVE(t, KeyBytes(t, y)),
                                       0, "none"),
                            SUTL_CMPFN_DEF_PRIMITIVE(t, KeyBytes(t, x), KeyBytes(t, y)))
    /\ UNCHANGED <<vecvars, mapvars, setvars>>

\* The caller takes the result and is ready for the next call.
HashReturn ==
    /\ hcall # NoHashCall
    /\ hres.first.fault = "none"
    /\ hcall' = NoHashCall
    /\ hres' = NoHashResults
    /\ UNCHANGED <<vecvars, mapvars, setvars>>

NextHash ==
    \/ HashString
    \/ HashPrimitive
    \/ HashReturn

(***************************************************************************)
(* The state machine: one caller, one array, one operation per step.       *)
(* op is the call in progress and its arguments, pre the array as the call *)
(* found it; both are cleared when the caller has taken the results.       *)
(***************************************************************************)
Envs == [alloc : BOOLEAN, ub : {"crash", "corrupt"}]

Call(name, at, size, count, xs) ==
    [name |-> name, at |-> at, size |-> size, count |-> count, xs |-> xs]

\* The array as the operation finds it: the callback count starts at 0.
Entry ==
    [vec EXCEPT !.errs = 0, !.msg = "", !.ret = RetNone, !.alloced = FALSE,
                !.seen = <<>>]

\* The outcomes of an operation, given as the function f from environments
\* to results: one outcome when the operation neither calls the allocator nor
\* hits undefined behaviour.
Outcomes(f) ==
    LET r == f[[alloc |-> TRUE, ub |-> "corrupt"]]
    IN  IF r.fault = "none" /\ ~r.alloced THEN {r} ELSE {f[env] : env \in Envs}

\* The caller contract: operations take a live handle of a running process.
Live == vec.h = "ok" /\ vec.fault = "none"

NoCall == Call("none", 0, 0, 0, <<>>)

\* The caller is between two calls, the results of the last one consumed.
Usable == Live /\ op = NoCall

Blocks == UNION {SeqsOfLen(Vals, n) : n \in 0 .. MaxCount}

\* The sizes explored.
SizeExplored(n) == n <= MaxLen \/ n >= WordMod - MaxWrap \/ n = WrapArg

\* The part of the state space explored.
Explored(s) ==
    /\ SizeExplored(s.Size)
    /\ Len(s.Data) <= (MaxLen + GrowthSlack) * s.Elemsize

Init ==
    /\ vec = NoVector
    /\ op = NoCall
    /\ pre = NoVector
    /\ slice = NoVector
    /\ hm = NoMap
    /\ mop = NoMapCall
    /\ log = <<>>
    /\ hs = NoSet
    /\ sop = NoMapCall
    /\ slog = <<>>
    /\ hcall = NoHashCall
    /\ hres = NoHashResults

Create ==
    /\ vec.h = "none"
    /\ op = NoCall
    /\ \E e \in ElemSizes :
        /\ \E r \in Outcomes([env \in Envs |-> SUTL_InternalVectorNew(Entry, e, env)]) :
            /\ vec' = r
            /\ Explored(r)
        /\ op' = Call("Create", 0, e, 0, <<>>)
        /\ pre' = vec
        /\ slice' = slice
        /\ UNCHANGED tablevars

Reserve ==
    /\ Usable
    /\ \E size \in Args :
        /\ \E r \in Outcomes([env \in Envs |-> SUTL_InternalVectorReserve(Entry, size, env)]) :
            /\ vec' = r
            /\ Explored(r)
        /\ op' = Call("Reserve", 0, size, 0, <<>>)
        /\ pre' = vec
        /\ slice' = slice
        /\ UNCHANGED tablevars

Resize ==
    /\ Usable
    /\ \E size \in Args :
        /\ \E r \in Outcomes([env \in Envs |-> SUTL_InternalVectorResize(Entry, size, env)]) :
            /\ vec' = r
            /\ Explored(r)
        /\ op' = Call("Resize", 0, size, 0, <<>>)
        /\ pre' = vec
        /\ slice' = slice
        /\ UNCHANGED tablevars

Insert ==
    /\ Usable
    /\ SizeExplored((vec.Size + 1) % WordMod)
    /\ \E at \in Args, x \in Vals :
        /\ \E r \in Outcomes([env \in Envs |-> SUTLVectorInsert(Entry, at, x, env)]) :
            /\ vec' = r
            /\ Explored(r)
        /\ op' = Call("Insert", at, 0, 1, <<x>>)
        /\ pre' = vec
        /\ slice' = slice
        /\ UNCHANGED tablevars

InsertN ==
    /\ Usable
    /\ \E at \in Args, xs \in Blocks :
        /\ SizeExplored((vec.Size + Len(xs)) % WordMod)
        /\ \E r \in Outcomes([env \in Envs |-> SUTLVectorInsertN(Entry, at, xs, env)]) :
            /\ vec' = r
            /\ Explored(r)
        /\ op' = Call("InsertN", at, 0, Len(xs), xs)
        /\ pre' = vec
        /\ slice' = slice
        /\ UNCHANGED tablevars

Push ==
    /\ Usable
    /\ SizeExplored((vec.Size + 1) % WordMod)
    /\ \E x \in Vals :
        /\ \E r \in Outcomes([env \in Envs |-> SUTLVectorPush(Entry, x, env)]) :
            /\ vec' = r
            /\ Explored(r)
        /\ op' = Call("Push", vec.Size, 0, 1, <<x>>)
        /\ pre' = vec
        /\ slice' = slice
        /\ UNCHANGED tablevars

PushN ==
    /\ Usable
    /\ \E xs \in Blocks :
        /\ SizeExplored((vec.Size + Len(xs)) % WordMod)
        /\ \E r \in Outcomes([env \in Envs |-> SUTLVectorPushN(Entry, xs, env)]) :
            /\ vec' = r
            /\ Explored(r)
        /\ op' = Call("PushN", vec.Size, 0, Len(xs), xs)
        /\ pre' = vec
        /\ slice' = slice
        /\ UNCHANGED tablevars

Erase ==
    /\ Usable
    /\ \E at \in Args :
        /\ \E r \in Outcomes([env \in Envs |-> SUTLVectorErase(Entry, at, env)]) :
            /\ vec' = r
            /\ Explored(r)
        /\ op' = Call("Erase", at, 0, 1, <<>>)
        /\ pre' = vec
        /\ slice' = slice
        /\ UNCHANGED tablevars

EraseN ==
    /\ Usable
    /\ \E at \in Args, count \in Args :
        /\ \E r \in Outcomes([env \in Envs |-> SUTL_InternalVectorEraseN(Entry, at, count, env)]) :
            /\ vec' = r
            /\ Explored(r)
        /\ op' = Call("EraseN", at, 0, count, <<>>)
        /\ pre' = vec
        /\ slice' = slice
        /\ UNCHANGED tablevars

Pop ==
    /\ Usable
    /\ \E r \in Outcomes([env \in Envs |-> SUTLVectorPop(Entry, env)]) :
        /\ vec' = r
        /\ Explored(r)
        /\ op' = Call("Pop", (vec.Size - 1) % WordMod, 0, 1, <<>>)
        /\ pre' = vec
        /\ slice' = slice
        /\ UNCHANGED tablevars

PopN ==
    /\ Usable
    /\ \E count \in Args :
        /\ \E r \in Outcomes([env \in Envs |-> SUTLVectorPopN(Entry, count, env)]) :
            /\ vec' = r
            /\ Explored(r)
        /\ op' = Call("PopN", (vec.Size - count) % WordMod, 0, count, <<>>)
        /\ pre' = vec
        /\ slice' = slice
        /\ UNCHANGED tablevars

Each ==
    /\ Usable
    /\ \E expr \in UNION {SeqsOfLen(Vals, n) : n \in 0 .. 1} :
        /\ \E r \in Outcomes([env \in Envs |-> SUTLVectorEach(Entry, expr, env)]) :
            /\ vec' = r
            /\ Explored(r)
        /\ op' = Call("Each", 0, 0, 0, expr)
        /\ pre' = vec
        /\ slice' = slice
        /\ UNCHANGED tablevars

\* SUTLStringSlice on the array when it is a string.
Slice ==
    /\ Usable
    /\ vec.Elemsize = CharSize
    /\ \E at \in Args, size \in Args :
        /\ \E r \in {SUTL_InternalStringSlice(Entry, at, size, env, env2) :
                        env \in Envs, env2 \in Envs} :
            /\ vec' = r.str
            /\ slice' = r.slice
            /\ Explored(r.slice)
        /\ op' = Call("Slice", at, size, 0, <<>>)
        /\ pre' = vec
        /\ UNCHANGED tablevars

\* The caller takes the results of the call (return value, error messages)
\* and is ready for the next one.
Return ==
    /\ Live
    /\ op # NoCall
    /\ vec' = Entry
    /\ op' = NoCall
    /\ pre' = NoVector
    /\ slice' = NoVector
    /\ UNCHANGED tablevars

Next ==
    \/ Create
    \/ Return
    \/ Reserve
    \/ Resize
    \/ Insert
    \/ InsertN
    \/ Push
    \/ PushN
    \/ Erase
    \/ EraseN
    \/ Pop
    \/ PopN
    \/ Each
    \/ Slice

Spec == Init /\ [][Next]_vars

\* The hashmap alone: one caller, one map.
SpecMap == Init /\ [][NextMap]_vars

SpecTable == Init /\ [][NextTable]_vars

\* The hash registry alone: one call after the other.
SpecHash == Init /\ [][NextHash]_vars

(***************************************************************************)
(* The claims.  A call in progress is read off op, the array before it off *)
(* pre, the array after it off vec.                                        *)
(***************************************************************************)
\* Element i (from 0) of array s: its cells, or no cells when the element
\* lies outside the block.
Elem(s, i) ==
    IF (i + 1) * s.Elemsize <= Len(s.Data)
    THEN SubSeq(s.Data, i * s.Elemsize + 1, (i + 1) * s.Elemsize)
    ELSE <<>>

\* The element sequence of array s.
Elems(s) == [i \in 1 .. s.Size |-> Elem(s, i - 1)]

\* The elements of a source block of values, as Elems gives them.
BlockElems(xs, es) == [i \in 1 .. Len(xs) |-> ElemCells(xs[i], es)]

\* An array whose header agrees with its block.
WellFormed(s) ==
    /\ s.h = "ok"
    /\ s.fault = "none"
    /\ s.Size <= s.Capacity
    /\ Len(s.Data) = s.Capacity * s.Elemsize

\* C1: with every allocation succeeding, Size <= Capacity in every reachable
\* state of the array.
C1_SizeLeCapacity ==
    (vec.h = "ok" /\ vec.fault = "none" /\ ~vec.oom) => vec.Size <= vec.Capacity

\* C2: Pop, and PopN(count) with count >= 1, on an array of Size 0 leave Size 0.
C2_PopOnEmpty ==
    (/\ op.name = "Pop" \/ (op.name = "PopN" /\ op.count >= 1)
     /\ pre.Size = 0)
    => vec.Size = 0

\* C3: Reserve(array, k) with k < Size leaves Size, Capacity and every cell of
\* the array unchanged and calls the error callback exactly once, with the
\* capacity-violation message.
C3_ReserveRejected ==
    (op.name = "Reserve" /\ op.size < pre.Size)
    => /\ vec.Size = pre.Size
       /\ vec.Capacity = pre.Capacity
       /\ vec.Data = pre.Data
       /\ vec.errs = 1
       /\ vec.msg = MsgReserve
       /\ vec.h = "ok"
       /\ vec.fault = "none"

C3_Witness ==
    /\ op.name = "Reserve"
    /\ WellFormed(pre)
    /\ op.size < pre.Size
    /\ Elem(pre, 0) = ElemCells(1, pre.Elemsize)
    /\ vec.errs = 1

\* C4: for k >= Size, a Reserve(array, k) whose reallocation succeeds sets
\* Capacity to k, leaves Size and the elements below Size unchanged and
\* reports no error.
C4_ReserveSetsCapacity ==
    (op.name = "Reserve" /\ op.size >= pre.Size /\ WellFormed(pre) /\ vec.h = "ok")
    => /\ vec.Capacity = op.size
       /\ vec.Size = pre.Size
       /\ Elems(vec) = Elems(pre)
       /\ vec.errs = 0

\* C5: Resize(array, n) ends with Size = n; Capacity becomes n + 2 when n
\* exceeds the Capacity before the call and is unchanged otherwise.
C5_ResizePolicy ==
    (op.name = "Resize" /\ WellFormed(pre) /\ ~vec.oom)
    => /\ vec.Size = op.size
       /\ IF op.size > pre.Capacity
          THEN vec.Capacity = op.size + GrowthSlack
          ELSE vec.Capacity = pre.Capacity

C7_InsertNRejected ==
    (op.name \in {"InsertN", "Insert"} /\ op.at > pre.Size)
    => /\ vec.ret = RetNull
       /\ vec.errs = 1
       /\ vec.msg = MsgInsert
       /\ vec.Size = pre.Size
       /\ vec.Capacity = pre.Capacity
       /\ vec.Data = pre.Data
       /\ vec.h = "ok"
       /\ vec.fault = "none"

C7_Witness ==
    /\ op.name = "InsertN"
    /\ WellFormed(pre)
    /\ pre.Size >= 1
    /\ op.at > pre.Size
    /\ op.at <= pre.Capacity
    /\ op.count >= 1
    /\ vec.ret = RetNull

\* C8: for at <= Size = n, an InsertN(a, at, s, count) that returns a
\* reference yields a[0..at) ++ s ++ a[at..n) with Size = n + count, the
\* reference addressing index at.
C8_InsertNSplice ==
    (/\ op.name \in {"InsertN", "Insert"}
     /\ op.at <= pre.Size
     /\ ~vec.oom
     /\ vec.ret.kind = "ptr")
    => /\ vec.Size = pre.Size + op.count
       /\ Elems(vec) = SubSeq(Elems(pre), 1, op.at)
                         \o BlockElems(op.xs, pre.Elemsize)
                         \o SubSeq(Elems(pre), op.at + 1, pre.Size)
       /\ vec.ret = RetPtr(op.at * pre.Elemsize)

\* C9: EraseN(array, at, count) with at > Size is rejected for every count:
\* one call of the error callback, Size, Capacity and every cell unchanged.
C9_EraseNRejected ==
    (op.name = "EraseN" /\ op.at > pre.Size /\ WellFormed(pre))
    => /\ vec.errs = 1
       /\ vec.Size = pre.Size
       /\ vec.Capacity = pre.Capacity
       /\ vec.Data = pre.Data

\* C10: for at <= Size = n, EraseN(a, at, count) reports no error and yields
\* a[0..at) ++ a[min(at + count, n)..n) with Size = n - min(count, n - at).
C10_EraseNClamps ==
    (op.name = "EraseN" /\ op.at <= pre.Size /\ WellFormed(pre))
    => /\ vec.errs = 0
       /\ vec.Size = pre.Size - Min(op.count, pre.Size - op.at)
       /\ Elems(vec) = SubSeq(Elems(pre), 1, op.at)
                         \o SubSeq(Elems(pre), Min(op.at + op.count, pre.Size) + 1,
                                   pre.Size)

C12_InsertEraseInverse ==
    (/\ op.name = "Insert"
     /\ op.at <= pre.Size
     /\ ~vec.oom
     /\ vec.fault # "crash")
    => \A env \in Envs :
          LET r == SUTLVectorErase(Entry, op.at, env)
          IN  /\ r.Size = pre.Size
              /\ Elems(r) = Elems(pre)

\* C13: Resize(a, n) made a second time yields the Size and Capacity the first
\* call left, and every element at an index below both n and the original Size
\* still has its original value.
C13_ResizeIdempotent ==
    (/\ op.name = "Resize"
     /\ WellFormed(pre)
     /\ ~vec.oom
     /\ vec.fault = "none")
    => \A env \in Envs :
          LET r == SUTL_InternalVectorResize(Entry, op.size, env)
          IN  /\ r.Size = vec.Size
              /\ r.Capacity = vec.Capacity
              /\ \A i \in 0 .. Min(op.size, pre.Size) - 1 : Elem(r, i) = Elem(pre, i)

\* C14: Create(e) sets ElementSize to e and no later operation changes it.
C14_ElemsizeFixed ==
    /\ (op.name = "Create" /\ vec.h = "ok") => vec.Elemsize = op.size
    /\ op.name \notin {"none", "Create"} => vec.Elemsize = pre.Elemsize

\* C15: ForEach over an array of Size n runs the visitor for the indices
\* 0, 1, ..., n - 1 in that order, each once; what the visitor stores through
\* the reference is the element at that index afterwards; Size and Capacity
\* are unchanged.
C15_EachVisitsAll ==
    op.name = "Each"
    => /\ vec.seen = [i \in 1 .. pre.Size |-> i - 1]
       /\ vec.Size = pre.Size
       /\ vec.Capacity = pre.Capacity
       /\ \A i \in 0 .. pre.Size - 1 :
             Elem(vec, i) = IF op.xs = <<>> THEN Elem(pre, i)
                            ELSE ElemCells(op.xs[1], pre.Elemsize)
       /\ vec.fault = "none"

\* The bytes of string s from index from up to, not including, index to.
Bytes(s, from, to) == [i \in 1 .. to - from |-> Elem(s, from + i - 1)]

\* C16: Slice(str, at, size) with at >= length(str), at = length included,
\* returns the null result, calls the error callback exactly once, allocates no
\* string and leaves str unchanged.
C16_SliceRejected ==
    (op.name = "Slice" /\ op.at >= pre.Size)
    => /\ vec.ret = RetNull
       /\ vec.errs = 1
       /\ vec.msg = MsgSlice
       /\ ~vec.alloced
       /\ slice = NoVector
       /\ vec.Size = pre.Size
       /\ vec.Capacity = pre.Capacity
       /\ vec.Data = pre.Data
       /\ vec.fault = "none"

C16_Witness ==
    /\ op.name = "Slice"
    /\ WellFormed(pre)
    /\ pre.Size >= 1
    /\ op.at = pre.Size
    /\ Elem(pre, 0) = ElemCells(1, CharSize)
    /\ vec.ret = RetNull
    /\ vec.errs = 1

\* C17: for at < length(str), allocation succeeding, Slice(str, at, 0) returns
\* a new string of Size length - at with the bytes str[at..length), and
\* Slice(str, at, size) with size > 0 and at + size <= length one of Size size
\* with the bytes str[at..at + size); str is unchanged.
C17_SliceExact ==
    (/\ op.name = "Slice"
     /\ op.at < pre.Size
     /\ op.size = 0 \/ op.at + op.size <= pre.Size
     /\ ~vec.oom)
    => LET n == IF op.size = 0 THEN pre.Size - op.at ELSE op.size
       IN  /\ vec.ret.kind = "ptr"
           /\ vec.fault = "none"
           /\ slice.h = "ok"
           /\ slice.Size = n
           /\ Elems(slice) = Bytes(pre, op.at, op.at + n)
           /\ \A i \in 0 .. n - 1 : Elem(pre, op.at + i) # <<>>
           /\ vec.Size = pre.Size
           /\ vec.Capacity = pre.Capacity
           /\ vec.Data = pre.Data

\* C18: for at < length(str) and at + size > length(str), allocation
\* succeeding, Slice(str, at, size) returns a string of Size size whose first
\* length - at bytes are str[at..length) and whose other bytes are unwritten.
C18_SliceBeyondEnd ==
    (/\ op.name = "Slice"
     /\ WellFormed(pre)
     /\ op.at < pre.Size
     /\ op.at + op.size > pre.Size
     /\ ~vec.oom)
    => /\ vec.ret.kind = "ptr"
       /\ vec.fault = "none"
       /\ slice.Size = op.size
       /\ \A i \in 0 .. pre.Size - op.at - 1 : Elem(slice, i) = Elem(pre, op.at + i)
       /\ \A i \in pre.Size - op.at .. op.size - 1 : Elem(slice, i) = <<Uninit>>

\* C19 as claimed: when the requested length exceeds the available data, every
\* byte of the result at an index >= length(str) - at and < size is 0.
C19_SliceZeroPadded ==
    (/\ op.name = "Slice"
     /\ WellFormed(pre)
     /\ op.at < pre.Size
     /\ op.at + op.size > pre.Size
     /\ slice.h = "ok"
     /\ vec.fault = "none")
    => \A i \in pre.Size - op.at .. op.size - 1 : Elem(slice, i) = <<0>>

\* C19 as amended: when at + size, in size_t arithmetic, exceeds length(str),
\* Slice writes no byte of the result at an index >= length(str) - at: every
\* such byte of the returned block is as the allocator handed it out, unwritten.
C19_SlicePadUnwritten ==
    (/\ op.name = "Slice"
     /\ op.at < pre.Size
     /\ (op.at + op.size) % WordMod > pre.Size
     /\ slice.h = "ok")
    => \A i \in pre.Size - op.at .. op.size - 1 :
          i < Len(slice.Data) => slice.Data[i + 1] = Uninit

C19_Witness ==
    /\ op.name = "Slice"
    /\ WellFormed(pre)
    /\ op.at < pre.Size
    /\ op.at + op.size > pre.Size
    /\ slice.h = "ok"
    /\ vec.fault = "none"
    /\ slice.Size = op.size
    /\ Elem(slice, 0) = ElemCells(1, CharSize)
    /\ Elem(slice, op.size - 1) = <<Uninit>>

(***************************************************************************)
(* Hashmap claims, checked under SpecMap.  log holds the Insert and Erase  *)
(* calls made on the map since it was created, mop the last call.          *)
(***************************************************************************)

\* The calls the round trip is made of, on key k with value v.
RoundTrip(k, v, n) ==
    SubSeq(<<MapCall("Insert", k, v), MapCall("Erase", k, 0), MapCall("Erase", k, 0)>>,
           1, n)

\* C20: on a freshly created map, with no allocation failing, for any key k
\* and value v: after Insert(m, k, v), Size is 1 and Get(m, k) yields v; after
\* Erase(m, k), Size is 0 and Get(m, k) finds nothing; after a second
\* Erase(m, k), Size is still 0, Get(m, k) finds nothing, and the error
\* callback was not called.
C20_MapRoundTrip ==
    \A k \in MapKeys, v \in Vals :
        ~hm.oom =>
            /\ log = RoundTrip(k, v, 1) =>
                  /\ hm.fault = "none"
                  /\ hm.Size = 1
                  /\ mop = MapCall("Insert", k, v) => hm.errs = 0
                  /\ mop = MapCall("Get", k, 0) =>
                        /\ hm.ret.kind = "ptr"
                        /\ hm.ret.val = ElemCells(v, hm.ValueSize)
            /\ log = RoundTrip(k, v, 2) =>
                  /\ hm.fault = "none"
                  /\ hm.Size = 0
                  /\ mop = MapCall("Erase", k, 0) => hm.errs = 0
                  /\ mop = MapCall("Get", k, 0) => hm.ret.kind = "null"
            /\ log = RoundTrip(k, v, 3) =>
                  /\ hm.fault = "none"
                  /\ hm.Size = 0
                  /\ mop = MapCall("Erase", k, 0) => hm.errs = 0
                  /\ mop = MapCall("Get", k, 0) => hm.ret.kind = "null"

\* Get after the whole round trip on key 2 of two cells: nothing found.
C20_Witness ==
    /\ ~hm.oom
    /\ hm.KeySize = 2
    /\ log = RoundTrip(2, 1, 3)
    /\ mop = MapCall("Get", 2, 0)
    /\ hm.ret.kind = "null"
    /\ hm.Size = 0
    /\ hm.errs = 0

(***************************************************************************)
(* Hashset claims and the claims on both tables, checked under SpecTable.  *)
(* slog holds the Insert and Erase calls made on the set since it was      *)
(* created, sop the last call.                                             *)
(***************************************************************************)

\* The calls the set round trip is made of, on key k.
SetRoundTrip(k, n) ==
    SubSeq(<<MapCall("Insert", k, 0), MapCall("Erase", k, 0), MapCall("Erase", k, 0)>>,
           1, n)

\* C21: on a freshly created set, with no allocation failing, for any key k:
\* after Insert(s, k), Size is 1 and Get(s, k) yields a reference to a stored
\* key equal to k; after Erase(s, k), Size is 0 and Get(s, k) finds nothing;
\* after a second Erase(s, k), Size is still 0, Get(s, k) finds nothing, and
\* the error callback was not called.
C21_SetRoundTrip ==
    \A k \in MapKeys :
        ~hs.oom =>
            /\ slog = SetRoundTrip(k, 1) =>
                  /\ hs.fault = "none"
                  /\ hs.Size = 1
                  /\ sop = MapCall("Insert", k, 0) => hs.errs = 0
                  /\ sop = MapCall("Get", k, 0) =>
                        /\ hs.ret.kind = "ptr"
                        /\ hs.ret.val = ElemCells(k, hs.KeySize)
                        /\ hs.ret.val =
                             ReadCells(hs.Keys[SUTLHash_int(hs.ret.val) % BucketCount],
                                       hs.ret.off, hs.KeySize)
            /\ slog = SetRoundTrip(k, 2) =>
                  /\ hs.fault = "none"
                  /\ hs.Size = 0
                  /\ sop = MapCall("Erase", k, 0) => hs.errs = 0
                  /\ sop = MapCall("Get", k, 0) => hs.ret.kind = "null"
            /\ slog = SetRoundTrip(k, 3) =>
                  /\ hs.fault = "none"
                  /\ hs.Size = 0
                  /\ sop = MapCall("Erase", k, 0) => hs.errs = 0
                  /\ sop = MapCall("Get", k, 0) => hs.ret.kind = "null"

\* Get after the whole round trip on key 2 of two cells: nothing found.
C21_Witness ==
    /\ ~hs.oom
    /\ hs.KeySize = 2
    /\ slog = SetRoundTrip(2, 3)
    /\ sop = MapCall("Get", 2, 0)
    /\ hs.ret.kind = "null"
    /\ hs.Size = 0
    /\ hs.errs = 0

\* The number of entries a bucket vector of b.Size bytes holds.
EntryCount(b, size) == b.Size \div size

C22_WitnessMap ==
    /\ log = <<MapCall("Insert", 1, 1), MapCall("Insert", 1, 2)>>
    /\ mop = MapCall("Insert", 1, 2)
    /\ hm.fault = "none"
    /\ hm.Size = 2
    /\ EntryCount(hm.Keys[1], hm.KeySize) = 1

RECURSIVE Entries(_, _, _)
\* The entries stored in the buckets from b on, counted on the key vectors.
Entries(keys, size, b) ==
    IF b >= BucketCount THEN 0
    ELSE EntryCount(keys[b], size) + Entries(keys, size, b + 1)

\* C23: after any sequence of Insert, Erase and Get calls that hit neither an
\* allocation failure nor undefined behaviour, the Size field of a map or set
\* equals the number of entries stored across all its buckets.
C23_SizeCountsEntries ==
    /\ (hm.h = "ok" /\ hm.fault = "none" /\ ~hm.oom) =>
          hm.Size = Entries(hm.Keys, hm.KeySize, 0)
    /\ (hs.h = "ok" /\ hs.fault = "none" /\ ~hs.oom) =>
          hs.Size = Entries(hs.Keys, hs.KeySize, 0)

\* An environment for the searches of the claims: they read written keys only.
Quiet == [alloc |-> TRUE, alloc2 |-> TRUE, ub |-> "corrupt", junk |-> FALSE]

\* The entry index of key k in its bucket of the map m, -1 when absent.
MapIndexOf(m, k) ==
    GetScan(m.Keys[SUTLHash_int(ElemCells(k, m.KeySize)) % BucketCount],
            ElemCells(k, m.KeySize), m.KeySize, 0, Quiet)

\* C24: map Insert(m, k, v) with k already present at entry index i of its
\* bucket appends nothing, leaves the stored value unchanged, and returns a
\* reference to the value at entry index i of the bucket's value vector, the
\* reference Get(m, k) returns, whatever the key size and the value size.
C24_InsertExisting ==
    [][(/\ mop'.name = "Insert"
        /\ mapvars' # mapvars
        /\ MapIndexOf(hm, mop'.key) # -1)
       => /\ hm'.Keys = hm.Keys
          /\ hm'.Values = hm.Values
          /\ hm'.ret.kind = "ptr"
          /\ hm'.ret.off = MapIndexOf(hm, mop'.key) * hm.ValueSize
          /\ hm'.ret = SUTLHashmapGet(hm', mop'.key, Quiet).ret]_vars

\* The entry index of key k in its bucket of the set s, -1 when absent.
SetIndexOf(s, k) ==
    GetScan(s.Keys[SUTLHash_int(ElemCells(k, s.KeySize)) % BucketCount],
            ElemCells(k, s.KeySize), s.KeySize, 0, Quiet)

\* C25: map or set Erase of a key that is not present, in any reachable table
\* state, leaves Size and every bucket vector unchanged and does not call the
\* error callback.
C25_EraseAbsent ==
    [][/\ (/\ mop'.name = "Erase"
           /\ mapvars' # mapvars
           /\ MapIndexOf(hm, mop'.key) = -1)
          => /\ hm'.fault = "none"
             /\ hm'.Size = hm.Size
             /\ hm'.Keys = hm.Keys
             /\ hm'.Values = hm.Values
             /\ hm'.errs = 0
       /\ (/\ sop'.name = "Erase"
           /\ setvars' # setvars
           /\ SetIndexOf(hs, sop'.key) = -1)
          => /\ hs'.fault = "none"
             /\ hs'.Size = hs.Size
             /\ hs'.Keys = hs.Keys
             /\ hs'.errs = 0]_vars

\* The bytes a bucket vector stores, those below its Size.
Stored(b) == [j \in 1 .. b.Size |-> LoadCell(b, j - 1)]

\* A byte sequence without its entry i of size bytes.
Without(bytes, i, size) ==
    SubSeq(bytes, 1, i * size) \o SubSeq(bytes, (i + 1) * size + 1, Len(bytes))

\* The bucket of key k in a table of key size ks.
BucketOf(k, ks) == SUTLHash_int(ElemCells(k, ks)) % BucketCount

\* C26: map or set Erase of a present key removes exactly that entry: the key
\* slot and, in a map, the value slot of the same entry index are removed,
\* Size decreases by exactly 1, the other entries of the bucket keep their
\* order and their pairing, the other buckets are untouched.
C26_ErasePresent ==
    [][/\ (/\ mop'.name = "Erase"
           /\ mapvars' # mapvars
           /\ MapIndexOf(hm, mop'.key) # -1)
          => LET b == BucketOf(mop'.key, hm.KeySize)
                 i == MapIndexOf(hm, mop'.key)
             IN  /\ hm'.fault = "none"
                 /\ hm'.errs = 0
                 /\ hm'.Size = hm.Size - 1
                 /\ Stored(hm'.Keys[b]) = Without(Stored(hm.Keys[b]), i, hm.KeySize)
                 /\ Stored(hm'.Values[b]) = Without(Stored(hm.Values[b]), i, hm.ValueSize)
                 /\ \A o \in Buckets \ {b} : /\ hm'.Keys[o] = hm.Keys[o]
                                             /\ hm'.Values[o] = hm.Values[o]
       /\ (/\ sop'.name = "Erase"
           /\ setvars' # setvars
           /\ SetIndexOf(hs, sop'.key) # -1)
          => LET b == BucketOf(sop'.key, hs.KeySize)
                 i == SetIndexOf(hs, sop'.key)
             IN  /\ hs'.fault = "none"
                 /\ hs'.errs = 0
                 /\ hs'.Size = hs.Size - 1
                 /\ Stored(hs'.Keys[b]) = Without(Stored(hs.Keys[b]), i, hs.KeySize)
                 /\ \A o \in Buckets \ {b} : hs'.Keys[o] = hs.Keys[o]]_vars

\* C27: after any sequence of map Insert, Erase and Get calls that did not hit
\* undefined behaviour, every bucket
\* holds as many entries in its key vector (byte length / KeySize) as in its
\* value vector (byte length / ValueSize).
C27_BucketsPaired ==
    (hm.h = "ok" /\ hm.fault = "none") =>
        \A b \in Buckets :
            EntryCount(hm.Keys[b], hm.KeySize) = EntryCount(hm.Values[b], hm.ValueSize)

\* A bucket with two entries after an Insert, and one after an Erase that
\* found its key.
C27_Witness ==
    /\ hm.fault = "none"
    /\ hm.KeySize = 2
    /\ hm.ValueSize = 1
    /\ mop.name = "Erase"
    /\ Len(log) = 3
    /\ log[1].name = "Insert"
    /\ log[2].name = "Insert"
    /\ log[3] = MapCall("Erase", log[1].key, 0)
    /\ BucketOf(log[1].key, 2) = BucketOf(log[2].key, 2)
    /\ log[1].key # log[2].key
    /\ EntryCount(hm.Keys[BucketOf(log[1].key, 2)], 2) = 1
    /\ EntryCount(hm.Values[BucketOf(log[1].key, 2)], 1) = 1

RECURSIVE Replay(_, _)
\* The entries <<key, value>> a table holds after the first n calls of a log,
\* in the order they were inserted: Insert of a new key appends, Insert of a
\* present key changes nothing, Erase removes the key.
Replay(calls, n) ==
    IF n = 0 THEN <<>>
    ELSE LET before == Replay(calls, n - 1)
             c == calls[n]
         IN  IF c.name = "Insert"
             THEN (IF \E e \in 1 .. Len(before) : before[e][1] = c.key
                   THEN before
                   ELSE Append(before, <<c.key, c.value>>))
             ELSE SelectSeq(before, LAMBDA e : e[1] # c.key)

RECURSIVE InOrder(_, _, _)
\* The entries bucket by bucket, from bucket b on.
InOrder(entries, ks, b) ==
    IF b >= BucketCount THEN <<>>
    ELSE SelectSeq(entries, LAMBDA e : BucketOf(e[1], ks) = b) \o InOrder(entries, ks, b + 1)

\* Whether no two elements of a sequence are equal.
NoRepeat(seq) == \A a, b \in 1 .. Len(seq) : seq[a] = seq[b] => a = b

\* C28: map or set iteration visits every stored entry exactly once, the
\* buckets in ascending index and the entries of a bucket in the order they
\* were inserted; in a map every visited key comes with the value stored for
\* it.
C28_EachInOrder ==
    /\ (mop.name = "Each" /\ hm.fault = "none") =>
          /\ NoRepeat([e \in 1 .. Len(hm.ret.val) |-> hm.ret.val[e][1]])
          /\ Len(hm.ret.val) = Entries(hm.Keys, hm.KeySize, 0)
          /\ log # LogFull =>
                LET x == InOrder(Replay(log, Len(log)), hm.KeySize, 0)
                IN  hm.ret.val = [e \in 1 .. Len(x) |->
                                     <<ElemCells(x[e][1], hm.KeySize),
                                       ElemCells(x[e][2], hm.ValueSize)>>]
    /\ (sop.name = "Each" /\ hs.fault = "none") =>
          /\ NoRepeat(hs.ret.val)
          /\ Len(hs.ret.val) = Entries(hs.Keys, hs.KeySize, 0)
          /\ slog # LogFull =>
                LET x == InOrder(Replay(slog, Len(slog)), hs.KeySize, 0)
                IN  hs.ret.val = [e \in 1 .. Len(x) |-> ElemCells(x[e][1], hs.KeySize)]

\* Iteration of a map holding key 2 and then key 0 in bucket 0 and key 1 in
\* bucket 1: three entries are visited, key 2 first, key 1 last.
C28_Witness ==
    /\ mop.name = "Each"
    /\ hm.fault = "none"
    /\ hm.KeySize = 2
    /\ hm.ValueSize = 1
    /\ log = <<MapCall("Insert", 1, 2), MapCall("Insert", 2, 1), MapCall("Insert", 0, 2)>>
    /\ hm.ret.val = <<<<ElemCells(2, 2), ElemCells(1, 1)>>,
                      <<ElemCells(0, 2), ElemCells(2, 1)>>,
                      <<ElemCells(1, 2), ElemCells(2, 1)>>>>

\* C29: whatever the build configures, a map and a set are built with an
\* effective bucket count of 32 when the configured constant is unset or <= 0
\* and of the configured constant otherwise; the count is always positive.
C29_BucketCountDefault ==
    \A conf \in Configs :
        LET expected == IF ~conf.defined \/ conf.value <= 0
                        THEN DefaultBucketCount ELSE conf.value
        IN  /\ hm.h = "ok" =>
                  /\ SUTL_HASHMAP_BUCKET_COUNT(conf) = expected
                  /\ SUTL_HASHMAP_BUCKET_COUNT(conf) > 0
            /\ hs.h = "ok" =>
                  /\ SUTL_HASHSET_BUCKET_COUNT(conf) = expected
                  /\ SUTL_HASHSET_BUCKET_COUNT(conf) > 0

(***************************************************************************)
(* Memory claims on the array and the string, checked under Spec.  The     *)
(* leak field of an array says that a block is live which no pointer of    *)
(* the program refers to: SHRN_REALLOC failed, leaving the old block       *)
(* allocated, and its result, NULL, was stored to the only handle.         *)
(***************************************************************************)

\* C30: after an operation that reported an error and hit no undefined
\* behaviour (a rejected Reserve, InsertN, EraseN or Slice, a failed
\* allocation or reallocation), every live allocation is reachable through a
\* handle the caller holds: no block has leaked.
C30_NoLeakOnError ==
    (op.name # "none" /\ vec.errs > 0 /\ vec.fault = "none") =>
        /\ ~vec.leak
        /\ ~slice.leak

(***************************************************************************)
(* Failed allocations.  oom records that an allocator call of the          *)
(* operation returned NULL; fault that the operation went on to read or    *)
(* write through a pointer it may not use.                                 *)
(***************************************************************************)

\* C31: when an allocate or reallocate call of an operation fails, the
\* operation makes no further read or write through the null handle: the
\* failure is reported through the callback and no undefined behaviour
\* follows in that operation (Create, Reserve, Resize, InsertN, Slice).
C31_NoAccessAfterFailure ==
    (op.name # "none" /\ vec.oom) =>
        /\ vec.errs > 0
        /\ vec.fault = "none"

(***************************************************************************)
(* The allocations of a table.  A vector handle with h = "ok" owns one     *)
(* block; a block that leaked is owned by no handle.                       *)
(***************************************************************************)
\* The handles of the map m, and those of the set s.
MapHandles ==
    {Handle("ParamK", 0), Handle("ParamV", 0)}
        \cup {Handle("Keys", b) : b \in Buckets}
        \cup {Handle("Values", b) : b \in Buckets}

SetHandles == {Handle("ParamK", 0)} \cup {Handle("Keys", b) : b \in Buckets}

\* The vector behind handle x of the table t (a map or a set).
VectorOf(t, x) ==
    IF x.member = "ParamK" THEN t.ParamK
    ELSE IF x.member = "ParamV" THEN t.ParamV
    ELSE IF x.member = "Keys" THEN t.Keys[x.i]
    ELSE t.Values[x.i]

\* The number of blocks of table t, with handles hs0, that are allocated.
LiveBlocks(t, hs0) ==
    Cardinality({x \in hs0 : VectorOf(t, x).h = "ok"})
        + Cardinality({x \in hs0 : VectorOf(t, x).leak})

\* How often handle x was passed to SHRN_FREE.
TimesFreed(t, x) == Cardinality({n \in 1 .. Len(t.freed) : t.freed[n] = x})

C32_WitnessSet ==
    /\ sop.name = "Free"
    /\ hs.h = "freed"
    /\ hs.fault = "none"
    /\ slog # LogFull
    /\ Len(slog) = 2
    /\ \A a \in 1 .. Len(slog) : slog[a].name = "Insert"

(***************************************************************************)
(* The entries of a table: slot j of bucket b, for j below the number of   *)
(* keys the key vector of b holds.                                         *)
(***************************************************************************)
\* The slots of table t (a map or a set) that hold an entry.
Slots(t) ==
    {p \in Buckets \X (0 .. MaxBucket) : p[2] < EntryCount(t.Keys[p[1]], t.KeySize)}

\* The key stored in slot p of table t.
EntryKey(t, p) == ReadCells(t.Keys[p[1]], p[2] * t.KeySize, t.KeySize)

\* C33: after any sequence of Insert and Erase calls on a map or set, with
\* the registry's equality function, no two entries of the table hold equal
\* keys.
C33_KeysUnique ==
    /\ (hm.h = "ok" /\ hm.fault = "none") =>
          \A p, q \in Slots(hm) : p # q => EntryKey(hm, p) # EntryKey(hm, q)
    /\ (hs.h = "ok" /\ hs.fault = "none") =>
          \A p, q \in Slots(hs) : p # q => EntryKey(hs, p) # EntryKey(hs, q)

\* A map with two entries in one bucket, after an Insert of a key it held.
C33_Witness ==
    /\ hm.h = "ok"
    /\ hm.fault = "none"
    /\ mop.name = "Insert"
    /\ log # LogFull
    /\ \A a \in 1 .. Len(log) : log[a].name = "Insert"
    /\ \E a \in 1 .. Len(log) - 1 : log[a].key = mop.key
    /\ \E b \in Buckets : EntryCount(hm.Keys[b], hm.KeySize) = 2

(***************************************************************************)
(* The entry indices a search loop examines: those i for which the loop    *)
(* body runs and compares the key at byte offset i * KeySize.              *)
(***************************************************************************)
\* Insert compares every i below its loop bound.
InsertExamined(b, ks) == 0 .. b.Size \div ks - 1

\* Get compares up to the first match.
GetExamined(b, kc, ks, env) ==
    LET i == GetScan(b, kc, ks, 0, env)
    IN  IF i = -1 THEN 0 .. b.Size \div ks - 1 ELSE 0 .. i

\* Erase compares up to the first match, or up to its loop bound.
EraseExamined(b, kc, ks, env) ==
    LET scan == EraseScan(b, kc, ks, 0, env)
    IN  0 .. Min(scan.i, b.Size - 1)

\* The indices some search for key k examines in table t, this environment.
Examined(t, k, env) ==
    LET b == t.Keys[BucketOf(k, t.KeySize)]
        kc == ElemCells(k, t.KeySize)
    IN  InsertExamined(b, t.KeySize) \cup GetExamined(b, kc, t.KeySize, env)
            \cup EraseExamined(b, kc, t.KeySize, env)

\* C34: in every table state the calls reach, the linear scan of Insert,
\* Erase and Get for any key examines only entry indices below the entry
\* count of the bucket (the byte length of its key vector / KeySize), so no
\* key is read at a byte offset at or beyond the key vector's Size.
C34_ScansWithinEntries ==
    /\ (hm.h = "ok" /\ hm.fault = "none") =>
          \A k \in MapKeys, env \in MapEnvs :
              \A i \in Examined(hm, k, env) :
                  i < EntryCount(hm.Keys[BucketOf(k, hm.KeySize)], hm.KeySize)
    /\ (hs.h = "ok" /\ hs.fault = "none") =>
          \A k \in MapKeys, env \in MapEnvs :
              \A i \in Examined(hs, k, env) :
                  i < EntryCount(hs.Keys[BucketOf(k, hs.KeySize)], hs.KeySize)

(***************************************************************************)
(* The hash functions of the registry.                                     *)
(***************************************************************************)
RECURSIVE FoldTail(_, _, _, _)
\* The tail bytes of str from offset at on, XORed into bytes i + 1, i + 2, ...
\* of the word hash.
FoldTail(str, at, i, hash) ==
    IF at + i >= Len(str) THEN hash
    ELSE FoldTail(str, at, i + 1,
                  [hash EXCEPT ![i + 1] = BitXor(hash[i + 1], str[at + i + 1])])

\* The XOR fold the byte-string hash is described as: whole words first, then
\* the tail bytes into the corresponding bytes of the accumulator.
StringFold(str) ==
    LET bufSize == Len(str) \div WordBytes
    IN  FoldTail(str, bufSize * WordBytes, 0, FoldWords(str, bufSize, 0, AllOnes))

\* C35: the byte-string hash is a pure function of the string's bytes: from
\* the all-ones word it XORs in each whole word, then each tail byte into the
\* corresponding byte of the accumulator; it writes only its accumulator, for
\* every string length.
C35_StringHashFolds ==
    hcall.fn = "string" =>
        /\ hres.first.fault = "none"
        /\ hres.first.wild = 0
        /\ hres.first.word = StringFold(hcall.str)

\* C36: for every fixed-width integer key type the registry hash is the
\* key's value converted to the unsigned word (a negative value wraps modulo
\* the word range) and equality is ==, so two keys that compare equal select
\* the same bucket, and the bucket index, hash mod BucketCount, lies in
\* 0 .. BucketCount - 1.
C36_IntegerHash ==
    hcall.fn = "primitive" =>
        /\ hres.first.num = hcall.x % WordMod
        /\ hres.second.num = hcall.y % WordMod
        /\ hres.equal = (hcall.x = hcall.y)
        /\ hres.equal => hres.first.bucket = hres.second.bucket
        /\ hres.first.bucket = hres.first.num % BucketCount
        /\ hres.first.bucket \in 0 .. BucketCount - 1
        /\ hres.second.bucket \in 0 .. BucketCount - 1

\* The hash of a negative key of a signed type narrower than the word.
C36_Witness ==
    /\ hcall.fn = "primitive"
    /\ hcall.t = [width |-> 1, signed |-> TRUE]
    /\ hcall.x = -1
    /\ hcall.y = -1
    /\ hres.first.num = WordMod - 1
    /\ hres.equal

(***************************************************************************)
(* Where the keys are stored, and whether the searches find them.          *)
(***************************************************************************)
\* The keys a table holds after the calls of a log: inserted and not erased.
KeysKept(calls) ==
    {Replay(calls, Len(calls))[e][1] : e \in 1 .. Len(Replay(calls, Len(calls)))}

\* Whether the search of Erase for key k in table t stops at the entry of k,
\* in every environment.
EraseFinds(t, k) ==
    \A env \in MapEnvs :
        LET scan == EraseScan(t.Keys[BucketOf(k, t.KeySize)], ElemCells(k, t.KeySize),
                              t.KeySize, 0, env)
        IN  /\ scan.found
            /\ ~scan.ub
            /\ EntryKey(t, <<BucketOf(k, t.KeySize), scan.i>>) = ElemCells(k, t.KeySize)

\* Whether the search of Get for key k in table t ends at the entry of k.
GetFinds(t, k) ==
    LET i == GetScan(t.Keys[BucketOf(k, t.KeySize)], ElemCells(k, t.KeySize),
                     t.KeySize, 0, Quiet)
    IN  /\ i # -1
        /\ EntryKey(t, <<BucketOf(k, t.KeySize), i>>) = ElemCells(k, t.KeySize)

\* C37: after any sequence of map or set calls every stored key lies in the
\* bucket hash(k) mod BucketCount and in no other, so Get(k) and Erase(k)
\* find every key that was inserted and not erased.
C37_KeysInOwnBucket ==
    /\ (hm.h = "ok" /\ hm.fault = "none") =>
          /\ \A p \in Slots(hm) : SUTLHash_int(EntryKey(hm, p)) % BucketCount = p[1]
          /\ log # LogFull =>
                \A k \in KeysKept(log) : GetFinds(hm, k) /\ EraseFinds(hm, k)
    /\ (hs.h = "ok" /\ hs.fault = "none") =>
          /\ \A p \in Slots(hs) : SUTLHash_int(EntryKey(hs, p)) % BucketCount = p[1]
          /\ slog # LogFull =>
                \A k \in KeysKept(slog) : GetFinds(hs, k) /\ EraseFinds(hs, k)

\* A set that holds two keys of bucket 0 and one of bucket 1.
C37_Witness ==
    /\ hs.h = "ok"
    /\ hs.fault = "none"
    /\ slog # LogFull
    /\ KeysKept(slog) = {0, 1, 2}
    /\ EntryCount(hs.Keys[0], hs.KeySize) = 2
    /\ EntryCount(hs.Keys[1], hs.KeySize) = 1

(***************************************************************************)
(* What a call on one key leaves of the other keys.                        *)
(***************************************************************************)
\* What Get(k) yields on the map m: whether the key is found, and the value
\* the returned pointer refers to.
GetValue(m, k) ==
    LET r == SUTLHashmapGet(m, k, Quiet).ret
    IN  [kind |-> r.kind, val |-> r.val]

\* C38: map Insert, Erase or Get on key k leaves the result of Get(k')
\* unchanged for every key k' other than k, in the same or another bucket, and
\* never changes KeySize, ValueSize, the hash function or the equality
\* function of the map.
C38_OtherKeysUntouched ==
    [][(/\ mop'.name \in {"Insert", "Erase", "Get"}
        /\ mapvars' # mapvars
        /\ hm'.fault = "none")
       => /\ \A k \in MapKeys \ {mop'.key} : GetValue(hm', k) = GetValue(hm, k)
          /\ hm'.KeySize = hm.KeySize
          /\ hm'.ValueSize = hm.ValueSize
          /\ hm'.Hash = hm.Hash
          /\ hm'.KeyComp = hm.KeyComp]_vars

\* Erase of the first key of a bucket that holds two: the other key is still
\* found, with its own value.
C38_Witness ==
    /\ hm.fault = "none"
    /\ hm.KeySize = 2
    /\ hm.ValueSize = 1
    /\ log = <<MapCall("Insert", 0, 1), MapCall("Insert", 2, 2), MapCall("Erase", 0, 0)>>
    /\ mop = MapCall("Erase", 0, 0)
    /\ GetValue(hm, 2) = [kind |-> "ptr", val |-> ElemCells(2, 1)]
    /\ GetValue(hm, 0).kind = "null"

====
